---- MODULE Spec2Model ----
(***************************************************************************)
(* Model of the stimulation daemon (Remote_control/Server/_Daemon.py):     *)
(* the control loop Daemon_run._protocol_manager with its command          *)
(* handlers, the single protocol child process it supervises, the network  *)
(* thread that fills the two queues, and the protocol store on disk.       *)
(*                                                                         *)
(* The control loop is cut into steps at the places where it observes the  *)
(* child process (poll, wait) or a queue, so that a child exit or an       *)
(* enqueue can fall between any two observations.                          *)
(***************************************************************************)
EXTENDS Integers, Sequences, FiniteSets, TLC

(* ------------------------------ bounds -------------------------------- *)
\* Largest number of commands waiting in _message_queue.
MaxQueue == 1
\* Largest number of payloads waiting in _protocol_queue.
MaxUploads == 2
\* Size of the process table: child processes that can be alive at once.
MaxProcs == 2

(* --------------------------- input alphabet --------------------------- *)
\* A text payload is the sequence of its words, separated by one
\* whitespace character each; a payload that is not a str has isstr FALSE.
Str(w) == [isstr |-> TRUE, words |-> w]
NonText == [isstr |-> FALSE, words |-> <<>>]

\* Protocol names the clients use; only some of them are in the store.
Names == {<<"a">>, <<"b">>}
\* The names the clients upload under: a first upload creates the file, a
\* second one overwrites it.
UploadNames == {<<"b">>}
\* Content of an uploaded protocol (its generator lists).
Payloads == {"P1", "P2"}
\* Marks a file that does not exist.
NoFile == "NoFile"
\* Content of password.txt when it exists.
Password == "pw"
\* Exit codes a child may end with.
ExitCodes == {0, 1}

\* The reply of _start_protocol when a protocol is running.
AlreadyRunning == "Protocol already running, stop it before starting new one"

\* The payloads that arrive on the command topic.
Messages ==
  { Str(<<"Return", "protocol", "list">>),
    Str(<<"Print", "status">>),
    Str(<<"Stop", "protocol">>),
    Str(<<"Stop", "server">>),
    Str(<<"Stop", "protocol", "now">>),
    Str(<<"Upload", "protocol", "b">>),
    NonText }
  \cup { Str(<<"Upload", "protocol">> \o n \o <<p>>) :
           n \in UploadNames, p \in {"pw", "bad"} }
  \cup { Str(<<"Download", "protocol">> \o n) : n \in Names }
  \cup { Str(<<"Start", "protocol">> \o n) : n \in Names }

(* ------------------------------- state -------------------------------- *)
VARIABLES
  daemon,          \* "Serving", "Stopping" (DaemonStop raised) or "Crashed"
  pc,              \* position of the control loop
  is_active,       \* local is_active of _protocol_manager
  message,         \* <<m>>: the command being handled, <<>>: none
  caller,          \* who called _stop_protocol: "cmd", "server", "" (nobody)
  ret,             \* <<r>>: value returned by _stop_protocol, <<>>: none
  signals,         \* requests sent to the child by this _stop_protocol
  published,       \* replies published on topic_out in this loop iteration
  message_queue,   \* self._message_queue
  protocol_queue,  \* self._protocol_queue
  protocol,        \* self._protocol: 0 (None) or the pid of the Popen handle
  children,        \* pids of the child processes that are alive
  exit_code,       \* exit code of the process of the handle, once exited
  store,           \* Protocols/Protocol_<name>.py: content or NoFile
  password_file,   \* password.txt: content or NoFile
  init_file,       \* Protocols/__init__.py: <<>> or the name it imports
  protocol_file,   \* Protocol.py: <<>> or the name whose lists were written
  sent,            \* number of commands put on _message_queue so far, when
                   \* the commands are numbered (0 when they are not)
  raised,          \* exception that left Daemon_run._on_message, "" if none
  \* Client_loop (Remote_control/Client/_Client.py)
  client_queues,   \* the five queues of Client_loop, by name
  client_raised,   \* exception that left Client_loop._on_message, "" if none
  received,        \* number of messages the two _on_message have been given
  mqtt_message,    \* the message last handed to an _on_message: <<>> or
                   \* <<receiver, topic, payload>>
  \* Protocol_phases (Remote_control/Tools/_Protocol_phases.py)
  mecha_stimu_on,  \* self._mecha_stimu_on: (delay, is_active) pairs
  elec_stimu_on,   \* self._elec_stimu_on: (delay, is_active) pairs
  time_orange_on,  \* self._time_orange_on_minutes * 60
  stimu_mecha_timestamps,  \* locals and result of _build_led_list
  stimu_elec_timestamps,
  is_active_timestamps,
  list_led,        \* self._list_led
  built,           \* _build_led_list has run
  clock,           \* seconds since the last Popen of _start_protocol, when
                   \* time is counted (0 when it is not)
  announced,       \* <<n>>: termination messages published so far for the
                   \* run of the current handle, when they are counted
                   \* (<<>> when they are not)
  \* The connection to the broker
  try_count,       \* local try_count of Daemon_run.__init__
  attempts,        \* calls of self._client.connect made by Daemon_run.__init__
  daemon_conn,     \* "connecting" (in the loop of __init__), "connected"
                   \* (__init__ returned), "raised" (__init__ raised) or
                   \* "running" (__call__ has started the control loop)
  daemon_error,    \* exception the last connect of the daemon raised, or ""
  is_connected,    \* Client_loop.is_connected
  connected_once,  \* Client_loop._connected_once
  connect_calls,   \* calls of Client_loop.connect_to_broker so far
  connect_error,   \* exception the last connect or reconnect of the client
                   \* raised, or ""
  connect_ret,     \* <<text>> returned by the last connect_to_broker, <<>>
                   \* when it did not return
  connect_raised,  \* exception that left the last connect_to_broker, or ""
  \* Protocol_phases.add_cyclic_stretching_progressive
  mecha_stimu,     \* the 'value' of each entry of self._mecha_stimu
  args,            \* arguments of the last call, <<>> before any call
  phase_raised,    \* exception that left the last call, or ""
  \* Graphical_interface (Remote_control/Client/_Graphical_interface.py)
  in_flight        \* messages a client has published that the daemon's
                   \* network thread has not received yet, oldest first

\* The variables of the daemon's control loop, child and store.
daemon_vars == <<daemon, pc, is_active, message, caller, ret, signals,
                 published, message_queue, protocol_queue, protocol,
                 children, exit_code, store, password_file, init_file,
                 protocol_file>>
\* The variables of the message callbacks.
router_vars == <<raised, client_queues, client_raised, received,
                 mqtt_message>>
\* The variables of the protocol builder.
led_vars == <<mecha_stimu_on, elec_stimu_on, time_orange_on,
              stimu_mecha_timestamps, stimu_elec_timestamps,
              is_active_timestamps, list_led, built>>
\* The variables of the connection to the broker.
conn_vars == <<try_count, attempts, daemon_conn, daemon_error, is_connected,
               connected_once, connect_calls, connect_error, connect_ret,
               connect_raised>>
\* The variables of a call of add_cyclic_stretching_progressive.
phase_vars == <<mecha_stimu, args, phase_raised>>
\* What a step of the control loop, of the child or of the daemon's network
\* thread on well-formed traffic leaves alone.
other_vars == <<sent, router_vars, led_vars, clock, announced, conn_vars,
                phase_vars, in_flight>>
\* The same but for the count of the termination messages.
uncounted_vars == <<sent, router_vars, led_vars, clock, conn_vars,
                    phase_vars, in_flight>>

vars == <<daemon_vars, sent, router_vars, led_vars, clock, announced,
          conn_vars, phase_vars, in_flight>>

\* The count of the termination messages after one more, and at a launch.
Count(n) == IF n = <<>> THEN <<>> ELSE <<n[1] + 1>>
Reset(n) == IF n = <<>> THEN <<>> ELSE <<0>>

Pids == 1..MaxProcs

(* ------------------------- command grammar ---------------------------- *)
\* msg_templates: fullmatch of one template against a payload's words.
Prefix(w, p) == Len(w) >= Len(p) /\ SubSeq(w, 1, Len(p)) = p

\* The templates applied with match instead of fullmatch: text after the
\* template is accepted.
Matches_prefix(key, w) ==
  CASE key = "Return list" -> Prefix(w, <<"Return", "protocol", "list">>)
    [] key = "Print status" -> Prefix(w, <<"Print", "status">>)
    [] key = "Upload protocol" ->
         Len(w) >= 4 /\ Prefix(w, <<"Upload", "protocol">>)
    [] key = "Download protocol" ->
         Len(w) >= 3 /\ Prefix(w, <<"Download", "protocol">>)
    [] key = "Start protocol" ->
         Len(w) >= 3 /\ Prefix(w, <<"Start", "protocol">>)
    [] key = "Stop protocol" -> Prefix(w, <<"Stop", "protocol">>)
    [] key = "Stop server" -> Prefix(w, <<"Stop", "server">>)
    [] OTHER -> FALSE

Matches(key, w) ==
  CASE key = "Return list" -> w = <<"Return", "protocol", "list">>
    [] key = "Print status" -> w = <<"Print", "status">>
    [] key = "Upload protocol" ->
         Len(w) >= 4 /\ Prefix(w, <<"Upload", "protocol">>)
    [] key = "Download protocol" ->
         Len(w) >= 3 /\ Prefix(w, <<"Download", "protocol">>)
    [] key = "Start protocol" ->
         Len(w) >= 3 /\ Prefix(w, <<"Start", "protocol">>)
    [] key = "Stop protocol" -> w = <<"Stop", "protocol">>
    [] key = "Stop server" -> w = <<"Stop", "server">>
    [] OTHER -> FALSE

\* Insertion order of self._msg_to_meth, the order the loop tries them in.
MsgOrder == <<"Return list", "Print status", "Upload protocol",
              "Download protocol", "Start protocol", "Stop protocol",
              "Stop server">>

\* The key of the first template that matches, "" when none does.
FirstMatch(m) ==
  LET S == {i \in 1..Len(MsgOrder) : Matches(MsgOrder[i], m.words)}
  IN IF S = {} THEN ""
     ELSE MsgOrder[CHOOSE i \in S : \A j \in S : i <= j]

\* match.groupdict(): the named groups of the matched template.
GroupName(key, w) ==
  IF key = "Upload protocol" THEN <<w[3]>> ELSE SubSeq(w, 3, Len(w))
GroupPword(w) == SubSeq(w, 4, Len(w))

(* --------------------------- the supervisor --------------------------- *)
\* Popen.poll(): <<>> (None) while the child runs, else <<returncode>>.
Poll == IF protocol \in children THEN <<>> ELSE <<exit_code>>

\* The same test with "is not None" for "is None".
Is_protocol_active_inverted == protocol # 0 /\ Poll # <<>>
\* The same test without the poll of the child.
Is_protocol_active_nopoll == protocol # 0
\* The property _is_protocol_active.
Is_protocol_active == protocol # 0 /\ Poll = <<>>

\* The file Protocols/Protocol_<name>.py exists.
HasFile(n) == n \in DOMAIN store /\ store[n] # NoFile

(* ------------------------------- Init --------------------------------- *)
\* The queues Client_loop.__init__ creates, all empty.
ClientQueueNames == {"answer_queue", "data_queue", "is_busy_queue",
                     "protocol_queue", "protocol_list_queue"}
\* The message callbacks before any message: nothing received, nothing raised.
RouterInit ==
  /\ raised = ""
  /\ client_queues = [q \in ClientQueueNames |-> <<>>]
  /\ client_raised = ""
  /\ received = 0
  /\ mqtt_message = <<>>

\* Protocol_phases.__init__: both segment lists hold the placeholder point,
\* no list has been built. The lead time is the default of 10 minutes.
LedInit ==
  /\ mecha_stimu_on = << <<0, "False">> >>
  /\ elec_stimu_on = << <<0, "False">> >>
  /\ time_orange_on = 600
  /\ stimu_mecha_timestamps = <<>>
  /\ stimu_elec_timestamps = <<>>
  /\ is_active_timestamps = <<>>
  /\ list_led = <<>>
  /\ built = FALSE

\* The number of refused connections Daemon_run.__init__ gives up at.
Try_count == 15

\* A daemon whose constructor has connected at the first attempt, and a
\* client after Client_loop.__init__: never connected.
ConnInit ==
  /\ try_count = Try_count
  /\ attempts = 1
  /\ daemon_conn = "connected"
  /\ daemon_error = ""
  /\ is_connected = FALSE
  /\ connected_once = FALSE
  /\ connect_calls = 0
  /\ connect_error = ""
  /\ connect_ret = <<>>
  /\ connect_raised = ""

\* Protocol_phases.__init__: no mechanical command yet.
PhaseInit ==
  /\ mecha_stimu = <<>>
  /\ args = <<>>
  /\ phase_raised = ""

\* Daemon_run.__init__ and the entry of __call__.
DaemonInit ==
  /\ daemon = "Serving"
  /\ pc = "top"
  /\ is_active = FALSE
  /\ message = <<>>
  /\ caller = ""
  /\ ret = <<>>
  /\ signals = <<>>
  /\ published = <<>>
  /\ message_queue = <<>>
  /\ protocol_queue = <<>>
  /\ protocol = 0
  /\ children = {}
  /\ exit_code = 0
  /\ store = [n \in Names |-> IF n = <<"a">> THEN "P1" ELSE NoFile]
  /\ password_file \in {Password, NoFile}
  /\ init_file = <<>>
  /\ protocol_file = <<>>

Init ==
  /\ DaemonInit
  /\ sent = 0
  /\ RouterInit
  /\ LedInit
  /\ clock = 0
  /\ announced = <<>>
  /\ ConnInit
  /\ PhaseInit
  /\ in_flight = <<>>

(* --------------------------- network thread --------------------------- *)
\* _on_message on the command topic: the unpickled payload is enqueued.
On_message_command(m) ==
  /\ pc # "done"
  /\ Len(message_queue) < MaxQueue
  /\ message_queue' = Append(message_queue, m)
  /\ UNCHANGED <<daemon, pc, is_active, message, caller, ret, signals,
                 published, protocol_queue, protocol, children, exit_code,
                 store, password_file, init_file, protocol_file>>
  /\ UNCHANGED other_vars

\* _on_message on the protocol-upload topic.
On_message_protocol(p) ==
  /\ pc # "done"
  /\ Len(protocol_queue) < MaxUploads
  /\ protocol_queue' = Append(protocol_queue, p)
  /\ UNCHANGED <<daemon, pc, is_active, message, caller, ret, signals,
                 published, message_queue, protocol, children, exit_code,
                 store, password_file, init_file, protocol_file>>
  /\ UNCHANGED other_vars

(* --------------------------- child process ---------------------------- *)
\* A child ends on its own or because of a signal, with any exit code.
ChildExit(p, c) ==
  /\ p \in children
  /\ children' = children \ {p}
  /\ exit_code' = IF p = protocol THEN c ELSE exit_code
  /\ UNCHANGED <<daemon, pc, is_active, message, caller, ret, signals,
                 published, message_queue, protocol_queue, protocol,
                 store, password_file, init_file, protocol_file>>
  /\ UNCHANGED other_vars

(* ---------------------------- control loop ---------------------------- *)
\* An exception that is not DaemonStop leaves _protocol_manager and
\* __call__: the finally clause stops the client loop and the broker.
Escape ==
  /\ daemon' = "Crashed"
  /\ pc' = "done"

\* DaemonStop reaches __call__, which announces the stop.
Raise_DaemonStop(pubs) ==
  /\ published' = published \o pubs \o
                    <<"Stopping the server and the MQTT broker">>
  /\ daemon' = "Stopping"
  /\ pc' = "done"

\* Top of the loop body: end-of-protocol and start-of-protocol detection.
LoopTop ==
  /\ pc = "top"
  /\ pc' = "get"
  /\ IF is_active /\ ~Is_protocol_active
       THEN /\ is_active' = FALSE
            /\ published' = Append(published,
                 IF Poll = <<0>> THEN "Protocol terminated gracefully"
                 ELSE "Protocol terminated with an error")
       ELSE /\ is_active' = (is_active \/ Is_protocol_active)
            /\ UNCHANGED published
  /\ UNCHANGED <<daemon, message, caller, ret, signals, message_queue,
                 protocol_queue, protocol, children, exit_code, store,
                 password_file, init_file, protocol_file>>
  /\ announced' = IF is_active /\ ~Is_protocol_active THEN Count(announced)
                  ELSE announced
  /\ UNCHANGED uncounted_vars

\* The queue is empty: nothing to handle in this iteration.
NoCommand ==
  /\ pc = "get"
  /\ message_queue = <<>>
  /\ pc' = "sleep"
  /\ UNCHANGED <<daemon, is_active, message, caller, ret, signals,
                 published, message_queue, protocol_queue, protocol,
                 children, exit_code, store, password_file, init_file,
                 protocol_file>>
  /\ UNCHANGED other_vars

\* The same with the newest command taken instead of the oldest.
Dequeue_last(key) ==
  /\ pc = "get"
  /\ message_queue # <<>>
  /\ message_queue[Len(message_queue)].isstr
  /\ FirstMatch(message_queue[Len(message_queue)]) = key
  /\ message' = <<message_queue[Len(message_queue)]>>
  /\ message_queue' = SubSeq(message_queue, 1, Len(message_queue) - 1)

\* get_nowait() of a command whose first matching template is key.
Dequeue(key) ==
  /\ pc = "get"
  /\ message_queue # <<>>
  /\ Head(message_queue).isstr
  /\ FirstMatch(Head(message_queue)) = key
  /\ message' = <<Head(message_queue)>>
  /\ message_queue' = Tail(message_queue)

(* ------------------------------ handlers ------------------------------ *)
\* _send_protocol_list: the names go out on the list topic, then a reply.
Send_protocol_list ==
  /\ Dequeue("Return list")
  /\ published' = Append(published, "Received list of protocols")
  /\ pc' = "sleep"
  /\ UNCHANGED <<daemon, is_active, caller, ret, signals, protocol_queue,
                 protocol, children, exit_code, store, password_file,
                 init_file, protocol_file>>
  /\ UNCHANGED other_vars

\* _send_protocol_status with the two replies of an ended child exchanged.
Send_protocol_status_swapped ==
  /\ Dequeue("Print status")
  /\ published' = Append(published,
       IF protocol = 0 THEN "No protocol started yet"
       ELSE IF Is_protocol_active THEN "Protocol running"
       ELSE IF Poll = <<0>> THEN "Last protocol terminated with an error"
       ELSE "Last protocol terminated gracefully")
  /\ pc' = "sleep"
  /\ UNCHANGED <<daemon, is_active, caller, ret, signals, protocol_queue,
                 protocol, children, exit_code, store, password_file,
                 init_file, protocol_file>>
  /\ UNCHANGED other_vars

\* _send_protocol_status
Send_protocol_status ==
  /\ Dequeue("Print status")
  /\ published' = Append(published,
       IF protocol = 0 THEN "No protocol started yet"
       ELSE IF Is_protocol_active THEN "Protocol running"
       ELSE IF Poll = <<0>> THEN "Last protocol terminated gracefully"
       ELSE "Last protocol terminated with an error")
  /\ pc' = "sleep"
  /\ UNCHANGED <<daemon, is_active, caller, ret, signals, protocol_queue,
                 protocol, children, exit_code, store, password_file,
                 init_file, protocol_file>>
  /\ UNCHANGED other_vars

\* _save_protocol up to the blocking get, without the return that follows the
\* "Wrong password" reply.
Save_protocol_noreturn ==
  /\ Dequeue("Upload protocol")
  /\ LET w == Head(message_queue).words IN
       IF password_file = NoFile
         THEN Escape /\ UNCHANGED published
         ELSE IF GroupPword(w) # <<password_file>>
           THEN /\ published' = Append(published, "Error ! Wrong password")
                /\ pc' = "save_wait"
                /\ UNCHANGED daemon
           ELSE /\ pc' = "save_wait"
                /\ UNCHANGED <<daemon, published>>
  /\ UNCHANGED <<is_active, caller, ret, signals, protocol_queue, protocol,
                 children, exit_code, store, password_file, init_file,
                 protocol_file>>
  /\ UNCHANGED other_vars

\* _save_protocol up to the blocking get: the password check.  Opening a
\* password file that does not exist raises FileNotFoundError.
Save_protocol ==
  /\ Dequeue("Upload protocol")
  /\ LET w == Head(message_queue).words IN
       IF password_file = NoFile
         THEN Escape /\ UNCHANGED published
         ELSE IF GroupPword(w) # <<password_file>>
           THEN /\ published' = Append(published, "Error ! Wrong password")
                /\ pc' = "sleep"
                /\ UNCHANGED daemon
           ELSE /\ pc' = "save_wait"
                /\ UNCHANGED <<daemon, published>>
  /\ UNCHANGED <<is_active, caller, ret, signals, protocol_queue, protocol,
                 children, exit_code, store, password_file, init_file,
                 protocol_file>>
  /\ UNCHANGED other_vars

\* _save_protocol from the get on, taking the newest payload instead of the
\* oldest.
Save_protocol_get_newest ==
  /\ pc = "save_wait"
  /\ pc' = "sleep"
  /\ LET w == message[1].words
         name == GroupName("Upload protocol", w) IN
       IF protocol_queue # <<>>
         THEN /\ store' = [n \in DOMAIN store \cup {name} |->
                             IF n = name
                               THEN protocol_queue[Len(protocol_queue)]
                               ELSE store[n]]
              /\ protocol_queue' =
                   SubSeq(protocol_queue, 1, Len(protocol_queue) - 1)
              /\ published' = Append(published,
                                     "Protocol successfully uploaded")
         ELSE /\ published' = Append(published,
                                     "Error ! No protocol received")
              /\ UNCHANGED <<store, protocol_queue>>
  /\ UNCHANGED <<daemon, is_active, message, caller, ret, signals,
                 message_queue, protocol, children, exit_code,
                 password_file, init_file, protocol_file>>
  /\ UNCHANGED other_vars

\* _save_protocol from self._protocol_queue.get(timeout=5) on: the oldest
\* payload is written under the name, or the wait ends with Empty.
Save_protocol_get ==
  /\ pc = "save_wait"
  /\ pc' = "sleep"
  /\ LET w == message[1].words
         name == GroupName("Upload protocol", w) IN
       IF protocol_queue # <<>>
         THEN /\ store' = [n \in DOMAIN store \cup {name} |->
                             IF n = name THEN Head(protocol_queue)
                             ELSE store[n]]
              /\ protocol_queue' = Tail(protocol_queue)
              /\ published' = Append(published,
                                     "Protocol successfully uploaded")
         ELSE /\ published' = Append(published,
                                     "Error ! No protocol received")
              /\ UNCHANGED <<store, protocol_queue>>
  /\ UNCHANGED <<daemon, is_active, message, caller, ret, signals,
                 message_queue, protocol, children, exit_code,
                 password_file, init_file, protocol_file>>
  /\ UNCHANGED other_vars

\* _send_protocol: opening a protocol that is not in the store raises
\* FileNotFoundError; is_published() may be either value right after the
\* publish call.
Send_protocol ==
  /\ Dequeue("Download protocol")
  /\ LET name == GroupName("Download protocol", Head(message_queue).words) IN
       IF ~HasFile(name)
         THEN Escape /\ UNCHANGED published
         ELSE /\ \E is_published \in BOOLEAN :
                   published' = Append(published,
                     IF is_published THEN "Protocol successfully downloaded"
                     ELSE "Error ! Protocol not properly sent")
              /\ pc' = "sleep"
              /\ UNCHANGED daemon
  /\ UNCHANGED <<is_active, caller, ret, signals, protocol_queue, protocol,
                 children, exit_code, store, password_file, init_file,
                 protocol_file>>
  /\ UNCHANGED other_vars

\* _start_protocol with the two files rewritten before the test instead of
\* inside its first branch.
Start_protocol_files_first ==
  /\ Dequeue("Start protocol")
  /\ LET name == GroupName("Start protocol", Head(message_queue).words) IN
       /\ init_file' = name
       /\ IF ~HasFile(name)
            THEN /\ Escape
                 /\ UNCHANGED <<protocol_file, protocol, children, exit_code,
                                published>>
            ELSE /\ protocol_file' = name
                 /\ IF ~Is_protocol_active
                      THEN /\ \E p \in Pids \ children :
                                /\ \A q \in Pids \ children : p <= q
                                /\ protocol' = p
                                /\ children' = children \cup {p}
                           /\ exit_code' = 0
                           /\ pc' = "start_wait1"
                           /\ UNCHANGED <<daemon, published>>
                      ELSE /\ published' = Append(published, AlreadyRunning)
                           /\ pc' = "sleep"
                           /\ UNCHANGED <<daemon, protocol, children,
                                          exit_code>>
  /\ UNCHANGED <<is_active, caller, ret, signals, protocol_queue, store,
                 password_file>>
  /\ clock' = 0
  /\ announced' = IF pc' = "start_wait1" THEN Reset(announced) ELSE announced
  /\ UNCHANGED <<sent, router_vars, led_vars, conn_vars, phase_vars, in_flight>>

\* _start_protocol up to the first wait.  _choose_protocol rewrites
\* __init__.py; reloading a package that imports a protocol absent from
\* the store raises; else Protocol.py is written and the child launched
\* under the lowest pid that is not in use.
Start_protocol ==
  /\ Dequeue("Start protocol")
  /\ LET name == GroupName("Start protocol", Head(message_queue).words) IN
       IF ~Is_protocol_active
         THEN /\ init_file' = name
              /\ IF ~HasFile(name)
                   THEN /\ Escape
                        /\ UNCHANGED <<protocol_file, protocol, children,
                                       exit_code>>
                   ELSE /\ protocol_file' = name
                        /\ \E p \in Pids \ children :
                             /\ \A q \in Pids \ children : p <= q
                             /\ protocol' = p
                             /\ children' = children \cup {p}
                        /\ exit_code' = 0
                        /\ pc' = "start_wait1"
                        /\ UNCHANGED daemon
              /\ UNCHANGED published
         ELSE /\ published' = Append(published, AlreadyRunning)
              /\ pc' = "sleep"
              /\ UNCHANGED <<daemon, init_file, protocol_file, protocol,
                             children, exit_code>>
  /\ UNCHANGED <<is_active, caller, ret, signals, protocol_queue, store,
                 password_file>>
  /\ clock' = 0
  /\ announced' = IF pc' = "start_wait1" THEN Reset(announced) ELSE announced
  /\ UNCHANGED <<sent, router_vars, led_vars, conn_vars, phase_vars, in_flight>>

\* self._protocol.wait(5): returns when the child has exited, else
\* TimeoutExpired and the protocol is reported started.
Start_wait1 ==
  /\ pc = "start_wait1"
  /\ IF Poll # <<>>
       THEN pc' = "start_wait2" /\ UNCHANGED published
       ELSE /\ published' = Append(published, "Protocol started")
            /\ pc' = "sleep"
  /\ UNCHANGED <<daemon, is_active, message, caller, ret, signals,
                 message_queue, protocol_queue, protocol, children,
                 exit_code, store, password_file, init_file, protocol_file>>
  /\ UNCHANGED other_vars

\* The second self._protocol.wait(5), reached after the first returned.
Start_wait2 ==
  /\ pc = "start_wait2"
  /\ published' = Append(published,
       IF Poll # <<>> THEN "Error ! Protocol crashed at starting"
       ELSE "Protocol started")
  /\ pc' = "sleep"
  /\ UNCHANGED <<daemon, is_active, message, caller, ret, signals,
                 message_queue, protocol_queue, protocol, children,
                 exit_code, store, password_file, init_file, protocol_file>>
  /\ UNCHANGED other_vars

\* _stop_protocol returns r after publishing pubs, to the command loop or
\* to _stop_server, which reports a failure or raises DaemonStop.
StopReturn(c, r, pubs) ==
  /\ ret' = <<r>>
  /\ IF c = "server"
       THEN IF r # 0
              THEN /\ published' = published \o pubs \o
                        <<"Error ! Could not stop the current protocol, server not stopped">>
                   /\ pc' = "sleep"
                   /\ UNCHANGED daemon
              ELSE Raise_DaemonStop(pubs)
       ELSE /\ published' = published \o pubs
            /\ pc' = "sleep"
            /\ UNCHANGED daemon

\* _stop_protocol from its entry to the first wait.
Stop_entry(c) ==
  IF ~Is_protocol_active
    THEN /\ StopReturn(c, 0, <<"No protocol currently running !">>)
         /\ UNCHANGED signals
    ELSE /\ signals' = Append(signals, "SIGINT")
         /\ pc' = "stop_wait1"
         /\ UNCHANGED <<daemon, ret, published>>

\* The logs with the two exit messages exchanged.
Stop_report_swapped ==
  IF Poll = <<>>
    THEN StopReturn(caller, 1, <<"Error ! Could not stop the protocol">>)
    ELSE IF Poll = <<0>>
      THEN StopReturn(caller, 0, <<"Protocol terminated with an error">>)
      ELSE StopReturn(caller, 0, <<"Protocol terminated gracefully">>)

\* The end of _stop_protocol: the logs sent to the clients.
Stop_report ==
  IF Poll = <<>>
    THEN StopReturn(caller, 1, <<"Error ! Could not stop the protocol">>)
    ELSE IF Poll = <<0>>
      THEN StopReturn(caller, 0, <<"Protocol terminated gracefully">>)
      ELSE StopReturn(caller, 0, <<"Protocol terminated with an error">>)

\* The command Stop protocol.
Stop_protocol ==
  /\ Dequeue("Stop protocol")
  /\ caller' = "cmd"
  /\ Stop_entry("cmd")
  /\ UNCHANGED <<is_active, protocol_queue, protocol, children, exit_code,
                 store, password_file, init_file, protocol_file>>
  /\ UNCHANGED other_vars

\* The first wait with kill() requested where terminate() belongs.
Stop_wait1_kill ==
  /\ pc = "stop_wait1"
  /\ IF Poll # <<>>
       THEN Stop_report /\ UNCHANGED signals
       ELSE /\ signals' = Append(signals, "kill")
            /\ pc' = "stop_wait2"
            /\ UNCHANGED <<daemon, ret, published>>
  /\ UNCHANGED <<is_active, message, caller, message_queue, protocol_queue,
                 protocol, children, exit_code, store, password_file,
                 init_file, protocol_file>>
  /\ announced' = IF Poll # <<>> THEN Count(announced) ELSE announced
  /\ UNCHANGED uncounted_vars

\* wait(10) after SIGINT; on TimeoutExpired terminate() is requested.
Stop_wait1 ==
  /\ pc = "stop_wait1"
  /\ IF Poll # <<>>
       THEN Stop_report /\ UNCHANGED signals
       ELSE /\ signals' = Append(signals, "terminate")
            /\ pc' = "stop_wait2"
            /\ UNCHANGED <<daemon, ret, published>>
  /\ UNCHANGED <<is_active, message, caller, message_queue, protocol_queue,
                 protocol, children, exit_code, store, password_file,
                 init_file, protocol_file>>
  /\ announced' = IF Poll # <<>> THEN Count(announced) ELSE announced
  /\ UNCHANGED uncounted_vars

\* wait(10) after terminate(); on TimeoutExpired kill() is requested.
Stop_wait2 ==
  /\ pc = "stop_wait2"
  /\ IF Poll # <<>>
       THEN Stop_report /\ UNCHANGED signals
       ELSE /\ signals' = Append(signals, "kill")
            /\ pc' = "stop_wait3"
            /\ UNCHANGED <<daemon, ret, published>>
  /\ UNCHANGED <<is_active, message, caller, message_queue, protocol_queue,
                 protocol, children, exit_code, store, password_file,
                 init_file, protocol_file>>
  /\ announced' = IF Poll # <<>> THEN Count(announced) ELSE announced
  /\ UNCHANGED uncounted_vars

\* The last wait without its timeout: wait() returns when the child exits.
Stop_wait3_unbounded ==
  /\ pc = "stop_wait3"
  /\ Poll # <<>>
  /\ Stop_report
  /\ UNCHANGED <<is_active, message, caller, signals, message_queue,
                 protocol_queue, protocol, children, exit_code, store,
                 password_file, init_file, protocol_file>>
  /\ announced' = IF Poll # <<>> THEN Count(announced) ELSE announced
  /\ UNCHANGED uncounted_vars

\* wait(10) after kill(): it stands in the except clause, outside any try,
\* so its TimeoutExpired leaves _stop_protocol and the control loop.
Stop_wait3 ==
  /\ pc = "stop_wait3"
  /\ IF Poll # <<>>
       THEN Stop_report
       ELSE Escape /\ UNCHANGED <<ret, published>>
  /\ UNCHANGED <<is_active, message, caller, signals, message_queue,
                 protocol_queue, protocol, children, exit_code, store,
                 password_file, init_file, protocol_file>>
  /\ announced' = IF Poll # <<>> THEN Count(announced) ELSE announced
  /\ UNCHANGED uncounted_vars

\* _stop_server up to the call of _stop_protocol.
Stop_server ==
  /\ Dequeue("Stop server")
  /\ IF Is_protocol_active
       THEN /\ caller' = "server"
            /\ pc' = "stop_check"
            /\ UNCHANGED <<daemon, published>>
       ELSE /\ Raise_DaemonStop(<<>>)
            /\ UNCHANGED caller
  /\ UNCHANGED <<is_active, ret, signals, protocol_queue, protocol, children,
                 exit_code, store, password_file, init_file, protocol_file>>
  /\ UNCHANGED other_vars

\* _stop_protocol called by _stop_server: it polls the child again.
Stop_server_call ==
  /\ pc = "stop_check"
  /\ Stop_entry("server")
  /\ UNCHANGED <<is_active, message, caller, message_queue, protocol_queue,
                 protocol, children, exit_code, store, password_file,
                 init_file, protocol_file>>
  /\ UNCHANGED other_vars

\* A text that no template matches.
Invalid_command ==
  /\ Dequeue("")
  /\ published' = Append(published, "Error ! Invalid command message")
  /\ pc' = "sleep"
  /\ UNCHANGED <<daemon, is_active, caller, ret, signals, protocol_queue,
                 protocol, children, exit_code, store, password_file,
                 init_file, protocol_file>>
  /\ UNCHANGED other_vars

\* A payload that is not a str: fullmatch raises TypeError.
Not_text ==
  /\ pc = "get"
  /\ message_queue # <<>>
  /\ ~Head(message_queue).isstr
  /\ message' = <<Head(message_queue)>>
  /\ message_queue' = Tail(message_queue)
  /\ Escape
  /\ UNCHANGED <<is_active, caller, ret, signals, published, protocol_queue,
                 protocol, children, exit_code, store, password_file,
                 init_file, protocol_file>>
  /\ UNCHANGED other_vars

\* sleep(1) at the end of the loop body; the next iteration starts.
Sleep ==
  /\ pc = "sleep"
  /\ pc' = "top"
  /\ message' = <<>>
  /\ caller' = ""
  /\ ret' = <<>>
  /\ signals' = <<>>
  /\ published' = <<>>
  /\ UNCHANGED <<daemon, is_active, message_queue, protocol_queue, protocol,
                 children, exit_code, store, password_file, init_file,
                 protocol_file>>
  /\ UNCHANGED other_vars

(* ----------------------- the start of a protocol ---------------------- *)
\* The timeout of each self._protocol.wait(5) of _start_protocol, seconds.
Start_timeout == 5

\* A wait of _start_protocol returns once the child has exited, and raises
\* TimeoutExpired once its timeout has passed. The second wait begins after
\* the first has returned, that is with a child that has exited.
Start_wait_due ==
  \/ pc = "start_wait1" /\ (Poll # <<>> \/ clock >= Start_timeout)
  \/ pc = "start_wait2"

\* One second passes since the child was launched: not while a wait that is
\* due has not returned. Time is counted over twice the timeout.
Tick ==
  /\ protocol # 0
  /\ pc # "done"
  /\ ~Start_wait_due
  /\ clock < 2 * Start_timeout
  /\ clock' = clock + 1
  /\ UNCHANGED <<daemon_vars, sent, router_vars, led_vars, announced,
                 conn_vars, phase_vars, in_flight>>

\* The first wait under the clock.
Start_wait1_timed == Start_wait_due /\ Start_wait1

\* The Start commands of the clients.
StartMessages == { Str(<<"Start", "protocol">> \o n) : n \in Names }

\* The daemon given Start commands only, with time counted from each
\* launch of a child.
NextStart ==
  \/ \E m \in StartMessages : On_message_command(m)
  \/ \E p \in Pids, c \in ExitCodes : ChildExit(p, c)
  \/ LoopTop
  \/ NoCommand
  \/ Start_protocol
  \/ Start_wait1_timed
  \/ Start_wait2
  \/ Sleep
  \/ Tick

SpecStart == Init /\ [][NextStart]_vars

Next ==
  \/ \E m \in Messages : On_message_command(m)
  \/ \E p \in Payloads : On_message_protocol(p)
  \/ \E p \in Pids, c \in ExitCodes : ChildExit(p, c)
  \/ LoopTop
  \/ NoCommand
  \/ Send_protocol_list
  \/ Send_protocol_status
  \/ Save_protocol
  \/ Save_protocol_get
  \/ Send_protocol
  \/ Start_protocol
  \/ Start_wait1
  \/ Start_wait2
  \/ Stop_protocol
  \/ Stop_wait1
  \/ Stop_wait2
  \/ Stop_wait3
  \/ Stop_server
  \/ Stop_server_call
  \/ Invalid_command
  \/ Not_text
  \/ Sleep

Spec == Init /\ [][Next]_vars

\* The daemon with the termination messages of each run counted.
InitAnnounce ==
  /\ DaemonInit
  /\ sent = 0
  /\ RouterInit
  /\ LedInit
  /\ clock = 0
  /\ announced = <<0>>
  /\ ConnInit
  /\ PhaseInit
  /\ in_flight = <<>>

SpecAnnounce == InitAnnounce /\ [][Next]_vars

\* The steps of the control loop thread, which runs without pause but for
\* its one-second sleep and its bounded waits.
ControlLoop ==
  \/ LoopTop
  \/ NoCommand
  \/ Send_protocol_list
  \/ Send_protocol_status
  \/ Save_protocol
  \/ Save_protocol_get
  \/ Send_protocol
  \/ Start_protocol
  \/ Start_wait1
  \/ Start_wait2
  \/ Stop_protocol
  \/ Stop_wait1
  \/ Stop_wait2
  \/ Stop_wait3
  \/ Stop_server
  \/ Stop_server_call
  \/ Invalid_command
  \/ Not_text
  \/ Sleep

\* The daemon with a control loop that always takes its next step; the
\* network thread and the child act whenever they do.
SpecLive == Init /\ [][Next]_vars /\ WF_vars(ControlLoop)

(* ------------------------ the stop of a protocol ---------------------- *)
\* The commands that start and stop a protocol, and stop the server.
StopMessages ==
  { Str(<<"Start", "protocol", "a">>),
    Str(<<"Stop", "protocol">>),
    Str(<<"Stop", "server">>) }

\* The steps of the control loop on these commands.
StopLoop ==
  \/ LoopTop
  \/ NoCommand
  \/ Start_protocol
  \/ Start_wait1
  \/ Start_wait2
  \/ Stop_protocol
  \/ Stop_wait1
  \/ Stop_wait2
  \/ Stop_wait3
  \/ Stop_server
  \/ Stop_server_call
  \/ Sleep

NextStop ==
  \/ \E m \in StopMessages : On_message_command(m)
  \/ \E p \in Pids, c \in ExitCodes : ChildExit(p, c)
  \/ StopLoop

\* The daemon given these commands only; the control loop thread runs
\* without pause but for its one-second sleep and its bounded waits.
SpecStopLive == Init /\ [][NextStop]_vars /\ WF_vars(StopLoop)

(* ------------------- commands numbered in arrival order --------------- *)
\* The number of commands the network thread delivers in one run.
MaxSent == 3

\* The texts delivered when the order of dispatch is observed: a query, a
\* command whose handler waits, and a text outside the grammar.
FifoMessages ==
  { Str(<<"Print", "status">>),
    Str(<<"Start", "protocol", "a">>),
    Str(<<"Stop", "protocol", "now">>) }

\* _on_message on the command topic, the payload carrying its arrival
\* number.  Queue() has no capacity: put_nowait never fails.
On_message_command_seq(m) ==
  /\ pc # "done"
  /\ sent < MaxSent
  /\ sent' = sent + 1
  /\ message_queue' = Append(message_queue,
       [isstr |-> m.isstr, words |-> m.words, seq |-> sent + 1])
  /\ UNCHANGED <<daemon, pc, is_active, message, caller, ret, signals,
                 published, protocol_queue, protocol, children, exit_code,
                 store, password_file, init_file, protocol_file>>
  /\ UNCHANGED <<router_vars, led_vars, clock, announced,
                 conn_vars, phase_vars, in_flight>>

NextFifo ==
  \/ \E m \in FifoMessages : On_message_command_seq(m)
  \/ \E p \in Pids, c \in ExitCodes : ChildExit(p, c)
  \/ LoopTop
  \/ NoCommand
  \/ Send_protocol_status
  \/ Start_protocol
  \/ Start_wait1
  \/ Start_wait2
  \/ Invalid_command
  \/ Sleep

SpecFifo == Init /\ [][NextFifo]_vars

(* ----------------------- the upload of a protocol --------------------- *)
\* Graphical_interface._send_server for "Upload protocol": the protocol is
\* published on the protocol topic, then the command on the command topic.
\* The command carries the number of the upload and its payload, for the
\* record.
Send_server_upload(n, pw, p) ==
  /\ pc # "done"
  /\ sent < MaxSent
  /\ sent' = sent + 1
  /\ in_flight' = in_flight \o
       << [topic |-> "protocol", payload |-> p],
          [topic |-> "command",
           payload |-> [isstr |-> TRUE,
                        words |-> <<"Upload", "protocol">> \o n \o <<pw>>,
                        seq |-> sent + 1,
                        protocol |-> p]] >>
  /\ UNCHANGED <<daemon_vars, router_vars, led_vars, clock, announced,
                 conn_vars, phase_vars>>

\* The same when publish fails after upload_protocol has succeeded
\* ("Error ! Command not sent"): the protocol alone is on its way.
Send_server_upload_not_sent(p) ==
  /\ pc # "done"
  /\ sent < MaxSent
  /\ sent' = sent + 1
  /\ in_flight' = Append(in_flight, [topic |-> "protocol", payload |-> p])
  /\ UNCHANGED <<daemon_vars, router_vars, led_vars, clock, announced,
                 conn_vars, phase_vars>>

\* _on_message of the daemon for the oldest message on its way: the payload
\* goes to the queue of its topic.
Deliver ==
  /\ pc # "done"
  /\ in_flight # <<>>
  /\ in_flight' = Tail(in_flight)
  /\ IF Head(in_flight).topic = "protocol"
       THEN /\ protocol_queue' = Append(protocol_queue, Head(in_flight).payload)
            /\ UNCHANGED message_queue
       ELSE /\ message_queue' = Append(message_queue, Head(in_flight).payload)
            /\ UNCHANGED protocol_queue
  /\ UNCHANGED <<daemon, pc, is_active, message, caller, ret, signals,
                 published, protocol, children, exit_code, store,
                 password_file, init_file, protocol_file>>
  /\ UNCHANGED <<sent, router_vars, led_vars, clock, announced, conn_vars,
                 phase_vars>>

\* The daemon and clients that upload protocols.
NextUpload ==
  \/ \E n \in UploadNames, pw \in {Password, "bad"}, p \in Payloads :
       Send_server_upload(n, pw, p)
  \/ \E p \in Payloads : Send_server_upload_not_sent(p)
  \/ Deliver
  \/ LoopTop
  \/ NoCommand
  \/ Save_protocol
  \/ Save_protocol_get
  \/ Sleep

SpecUpload == Init /\ [][NextUpload]_vars

(* ======================== the message callbacks ======================= *)
\* The number of messages the broker delivers in one run.
MaxReceived == 2

\* Topic names: the defaults of Daemon_run.__init__ and Client_loop.__init__.
Daemon_topic_in == "Remote_control"
Daemon_topic_protocol_in == "Protocols_upload"
Client_topic_in == "Server_status"
Client_topic_data == "('t', 'pos')"
Client_topic_is_busy == "('busy',)"
Client_topic_protocol_in == "Protocols_download"
Client_topic_protocol_list == "Protocols_list"
\* Topics neither side has a queue for: a name, a tuple literal, and a text
\* that is no Python expression.
OtherTopics == {"Other", "('x',)", "no topic"}
DaemonTopics == {Daemon_topic_in, Daemon_topic_protocol_in} \cup OtherTopics
ClientTopics ==
  {Client_topic_in, Client_topic_data, Client_topic_is_busy,
   Client_topic_protocol_in, Client_topic_protocol_list} \cup OtherTopics

\* pickle.dumps of a value; bytes that are no pickle; the empty payload.
Dumps(v) == <<"pickle", v>>
Garbage == <<"garbage">>
EmptyPayload == <<"empty">>
\* A pickled text, a pickled object that is no text (a list of lines, a
\* number), and the two payloads that do not unpickle.
RouterPayloads ==
  {Dumps(Str(<<"Print", "status">>)), Dumps(NonText), Garbage, EmptyPayload}

\* pickle.loads: the value, or the exception it raises.  Bytes that start
\* with no pickle opcode raise UnpicklingError, an empty payload EOFError.
Loads(b) ==
  IF b[1] = "pickle" THEN [exc |-> "", value |-> b[2]]
  ELSE IF b = Garbage THEN [exc |-> "UnpicklingError", value |-> <<>>]
  ELSE [exc |-> "EOFError", value |-> <<>>]

\* ast.literal_eval of a topic: the tuple a tuple literal denotes,
\* ValueError for a bare name, SyntaxError for text that does not parse.
Literal_eval(t) ==
  CASE t = "('t', 'pos')" -> [exc |-> "", value |-> <<"t", "pos">>]
    [] t = "('busy',)" -> [exc |-> "", value |-> <<"busy">>]
    [] t = "('x',)" -> [exc |-> "", value |-> <<"x">>]
    [] t = "no topic" -> [exc |-> "SyntaxError", value |-> <<>>]
    [] OTHER -> [exc |-> "ValueError", value |-> <<>>]

UnpicklingWarning == "Warning ! Message raised UnpicklingError, ignoring it"

\* Daemon_run._on_message: the payload of a command or upload message is
\* unpickled and put on its queue; UnpicklingError is answered with a
\* warning on the status topic; any other exception leaves the callback.
On_message(topic, payload) ==
  /\ raised = ""
  /\ received < MaxReceived
  /\ received' = received + 1
  /\ mqtt_message' = <<"daemon", topic, payload>>
  /\ IF topic \in {Daemon_topic_in, Daemon_topic_protocol_in}
       THEN LET r == Loads(payload) IN
            IF r.exc = ""
              THEN /\ IF topic = Daemon_topic_in
                        THEN /\ message_queue' =
                                  Append(message_queue, r.value)
                             /\ UNCHANGED protocol_queue
                        ELSE /\ protocol_queue' =
                                  Append(protocol_queue, r.value)
                             /\ UNCHANGED message_queue
                   /\ UNCHANGED <<published, raised>>
              ELSE IF r.exc = "UnpicklingError"
                THEN /\ published' = Append(published, UnpicklingWarning)
                     /\ UNCHANGED <<message_queue, protocol_queue, raised>>
                ELSE /\ raised' = r.exc
                     /\ UNCHANGED <<message_queue, protocol_queue,
                                    published>>
       ELSE UNCHANGED <<message_queue, protocol_queue, published, raised>>
  /\ UNCHANGED <<daemon, pc, is_active, message, caller, ret, signals,
                 protocol, children, exit_code, store, password_file,
                 init_file, protocol_file>>
  /\ UNCHANGED <<sent, client_queues, client_raised, led_vars, clock, announced,
                 conn_vars, phase_vars, in_flight>>

\* The same choice with the queues of the download topic and of the list
\* topic exchanged.
ClientQueueOf_swapped(topic) ==
  LET e == Literal_eval(topic) IN
  IF e.exc = ""
    THEN IF e.value = <<"t", "pos">> THEN "data_queue"
         ELSE IF e.value = <<"busy">> THEN "is_busy_queue"
         ELSE ""
  ELSE IF e.exc = "ValueError"
    THEN IF topic = Client_topic_in THEN "answer_queue"
         ELSE IF topic = Client_topic_protocol_in THEN "protocol_list_queue"
         ELSE IF topic = Client_topic_protocol_list
           THEN "protocol_queue"
         ELSE ""
  ELSE ""

\* The queue Client_loop._on_message puts a payload on: the data topics are
\* compared as tuples inside the try, the text topics as strings inside the
\* ValueError handler.  "" when no branch is taken.
ClientQueueOf(topic) ==
  LET e == Literal_eval(topic) IN
  IF e.exc = ""
    THEN IF e.value = <<"t", "pos">> THEN "data_queue"
         ELSE IF e.value = <<"busy">> THEN "is_busy_queue"
         ELSE ""
  ELSE IF e.exc = "ValueError"
    THEN IF topic = Client_topic_in THEN "answer_queue"
         ELSE IF topic = Client_topic_protocol_in THEN "protocol_queue"
         ELSE IF topic = Client_topic_protocol_list
           THEN "protocol_list_queue"
         ELSE ""
  ELSE ""

\* The exception that leaves Client_loop._on_message, "" when none does.
\* SyntaxError of literal_eval has no handler.  An exception of loads is
\* caught only when it is UnpicklingError raised in the try body: raised
\* inside the ValueError handler it passes the sibling except clause.  On
\* the answer topic the print concatenates the value to a str.
ClientRaises(topic, payload) ==
  LET e == Literal_eval(topic)
      q == ClientQueueOf(topic)
      r == Loads(payload) IN
  IF e.exc = "SyntaxError" THEN "SyntaxError"
  ELSE IF q = "" THEN ""
  ELSE IF r.exc # ""
    THEN IF e.exc = "" /\ r.exc = "UnpicklingError" THEN "" ELSE r.exc
  ELSE IF q = "answer_queue" /\ ~r.value.isstr THEN "TypeError"
  ELSE ""

\* Client_loop._on_message
Client_on_message(topic, payload) ==
  /\ client_raised = ""
  /\ received < MaxReceived
  /\ received' = received + 1
  /\ mqtt_message' = <<"client", topic, payload>>
  /\ LET q == ClientQueueOf(topic)
         r == Loads(payload) IN
       /\ client_queues' =
            IF q # "" /\ r.exc = ""
              THEN [client_queues EXCEPT ![q] = Append(@, r.value)]
              ELSE client_queues
       /\ client_raised' = ClientRaises(topic, payload)
  /\ UNCHANGED <<daemon_vars, sent, raised, led_vars, clock, announced,
                 conn_vars, phase_vars, in_flight>>

NextRouter ==
  \/ \E t \in DaemonTopics, b \in RouterPayloads : On_message(t, b)
  \/ \E t \in ClientTopics, b \in RouterPayloads : Client_on_message(t, b)

SpecRouter == Init /\ [][NextRouter]_vars

(* ========================= the protocol builder ======================= *)
(* -------------------- the connection to the broker -------------------- *)
\* Largest number of calls of Client_loop.connect_to_broker.
MaxCalls == 3

Refused == "ConnectionRefusedError"
\* What a connect or a reconnect of the MQTT client does: it returns ("")
\* or raises socket.timeout, socket.gaierror, ConnectionRefusedError or an
\* OSError that is none of these.
Outcomes == {"", "timeout", "gaierror", Refused, "OSError"}

\* One pass of the loop of Daemon_run.__init__ with a refusal that is not
\* counted: try_count stays as it is.
Daemon_connect_uncounted(o) ==
  /\ daemon_conn = "connecting"
  /\ attempts' = attempts + 1
  /\ daemon_error' = o
  /\ UNCHANGED try_count
  /\ daemon_conn' = IF o = "" THEN "connected"
                    ELSE IF o = Refused THEN "connecting" ELSE "raised"
  /\ UNCHANGED <<is_connected, connected_once, connect_calls, connect_error,
                 connect_ret, connect_raised>>
  /\ UNCHANGED <<daemon_vars, sent, router_vars, led_vars, clock, announced,
                 phase_vars, in_flight>>

\* One pass of the loop of Daemon_run.__init__: connect returns and the
\* loop is left for loop_start, or it raises; timeout and gaierror are
\* raised again, a refusal is counted and raised again when the count
\* reaches 0, else the loop sleeps and goes round; any other exception
\* meets no handler.
Daemon_connect(o) ==
  /\ daemon_conn = "connecting"
  /\ attempts' = attempts + 1
  /\ daemon_error' = o
  /\ try_count' = IF o = Refused THEN try_count - 1 ELSE try_count
  /\ daemon_conn' = IF o = "" THEN "connected"
                    ELSE IF o = Refused /\ try_count' # 0 THEN "connecting"
                    ELSE "raised"
  /\ UNCHANGED <<is_connected, connected_once, connect_calls, connect_error,
                 connect_ret, connect_raised>>
  /\ UNCHANGED <<daemon_vars, sent, router_vars, led_vars, clock, announced,
                 phase_vars, in_flight>>

\* Daemon_run.__call__ on the constructed object: the control loop starts.
Daemon_call ==
  /\ daemon_conn = "connected"
  /\ daemon_conn' = "running"
  /\ UNCHANGED <<try_count, attempts, daemon_error, is_connected,
                 connected_once, connect_calls, connect_error, connect_ret,
                 connect_raised>>
  /\ UNCHANGED <<daemon_vars, sent, router_vars, led_vars, clock, announced,
                 phase_vars, in_flight>>

\* The text connect_to_broker returns for an exception it handles, with
\* the texts of the unreachable and of the invalid address exchanged.
Connect_text_swapped(o) ==
  CASE o = "timeout" -> "Address invalid"
    [] o = "gaierror" -> "Address unreachable"
    [] o = Refused -> "Server not running"
    [] OTHER -> ""

\* The text connect_to_broker returns for an exception it handles.
Connect_text(o) ==
  CASE o = "timeout" -> "Address unreachable"
    [] o = "gaierror" -> "Address invalid"
    [] o = Refused -> "Server not running"
    [] OTHER -> ""

\* Client_loop.connect_to_broker: reconnect() after a first success, else
\* connect(); both flags are set when it returns, is_connected is cleared
\* in the three handlers, and any other exception leaves the method before
\* a flag is assigned.
Connect_to_broker(o) ==
  /\ connect_calls < MaxCalls
  /\ connect_calls' = connect_calls + 1
  /\ connect_error' = o
  /\ IF o = ""
       THEN /\ is_connected' = TRUE
            /\ connected_once' = TRUE
            /\ connect_ret' = <<"">>
            /\ connect_raised' = ""
       ELSE IF o \in {"timeout", "gaierror", Refused}
         THEN /\ is_connected' = FALSE
              /\ connect_ret' = <<Connect_text(o)>>
              /\ connect_raised' = ""
              /\ UNCHANGED connected_once
         ELSE /\ connect_ret' = <<>>
              /\ connect_raised' = o
              /\ UNCHANGED <<is_connected, connected_once>>
  /\ UNCHANGED <<try_count, attempts, daemon_conn, daemon_error>>
  /\ UNCHANGED <<daemon_vars, sent, router_vars, led_vars, clock, announced,
                 phase_vars, in_flight>>

\* Client_loop._on_connect, called by the network loop once the broker has
\* accepted a connection.
Client_on_connect ==
  /\ connected_once
  /\ is_connected' = TRUE
  /\ UNCHANGED <<try_count, attempts, daemon_conn, daemon_error,
                 connected_once, connect_calls, connect_error, connect_ret,
                 connect_raised>>
  /\ UNCHANGED <<daemon_vars, sent, router_vars, led_vars, clock, announced,
                 phase_vars, in_flight>>

\* Client_loop._on_disconnect, called when an established connection ends.
Client_on_disconnect ==
  /\ connected_once
  /\ is_connected' = FALSE
  /\ UNCHANGED <<try_count, attempts, daemon_conn, daemon_error,
                 connected_once, connect_calls, connect_error, connect_ret,
                 connect_raised>>
  /\ UNCHANGED <<daemon_vars, sent, router_vars, led_vars, clock, announced,
                 phase_vars, in_flight>>

\* The constructor of the daemon enters its loop; the client is new.
InitConnect ==
  /\ DaemonInit
  /\ sent = 0
  /\ RouterInit
  /\ LedInit
  /\ clock = 0
  /\ announced = <<>>
  /\ PhaseInit
  /\ in_flight = <<>>
  /\ try_count = Try_count
  /\ attempts = 0
  /\ daemon_conn = "connecting"
  /\ daemon_error = ""
  /\ is_connected = FALSE
  /\ connected_once = FALSE
  /\ connect_calls = 0
  /\ connect_error = ""
  /\ connect_ret = <<>>
  /\ connect_raised = ""

Daemon_connects == \E o \in Outcomes : Daemon_connect(o)

NextConnect ==
  \/ Daemon_connects
  \/ Daemon_call
  \/ \E o \in Outcomes : Connect_to_broker(o)
  \/ Client_on_connect
  \/ Client_on_disconnect

SpecConnect == InitConnect /\ [][NextConnect]_vars

\* The constructor runs on the main thread of the daemon's process, which
\* nothing suspends: a pass of its loop that can be made is made.
SpecConnectLive ==
  InitConnect /\ [][NextConnect]_vars /\ WF_vars(Daemon_connects)

(* ------------------ a progressive cyclic stretching ------------------- *)
\* Largest number_of_sets, number_of_reps and number_of_cycles of a call.
MaxSets == 3
MaxReps == 2
MaxCycles == 2

\* The arguments of add_cyclic_stretching_progressive the dialog of the
\* builder lets through: counts that are not 0, positions in mm, the time to
\* reach a position in seconds and the rests in minutes.
PhaseArgs ==
  [rest_position_mm : {0},
   first_stretched_position_mm : {1, 2},
   last_stretched_position_mm : {2, 4},
   number_of_cycles : 1..MaxCycles,
   number_of_reps : 1..MaxReps,
   time_to_reach_position_seconds : {1},
   number_of_sets : 1..MaxSets,
   rest_between_sets_minutes : {1, 2},
   rest_between_reps_minutes : {1, 2}]

\* A position is the fraction <<numerator, denominator>> of a millimetre.
\* The stretched position of set j (from 0): first + j * (last - first) /
\* (number_of_sets - 1).
SetPosition(a, j) ==
  <<a.first_stretched_position_mm * (a.number_of_sets - 1)
      + j * (a.last_stretched_position_mm - a.first_stretched_position_mm),
    a.number_of_sets - 1>>

\* s repeated n times.
RECURSIVE Repeat(_, _)
Repeat(s, n) == IF n = 0 THEN <<>> ELSE s \o Repeat(s, n - 1)

\* The calls of _add_mecha of rep i of a set stretching to position: the
\* cycles, and the rest between reps unless the rep is the last of the set.
RepCommands(a, position, i) ==
  Repeat(<< [position |-> position,
             delay |-> a.time_to_reach_position_seconds,
             is_active |-> "True"],
            [position |-> <<a.rest_position_mm, 1>>,
             delay |-> a.time_to_reach_position_seconds,
             is_active |-> "True"] >>, a.number_of_cycles)
  \o (IF i # a.number_of_reps - 1
        THEN << [position |-> <<a.rest_position_mm, 1>>,
                 delay |-> a.rest_between_reps_minutes * 60,
                 is_active |-> "False"] >>
        ELSE <<>>)

\* The calls of _add_mecha of the reps from i on.
RECURSIVE RepsFrom(_, _, _)
RepsFrom(a, position, i) ==
  IF i >= a.number_of_reps THEN <<>>
  ELSE RepCommands(a, position, i) \o RepsFrom(a, position, i + 1)

\* The calls of _add_mecha of the sets from j on: each set ends with the
\* rest between sets.
RECURSIVE SetsFrom(_, _)
SetsFrom(a, j) ==
  IF j >= a.number_of_sets THEN <<>>
  ELSE RepsFrom(a, SetPosition(a, j), 0)
       \o << [position |-> <<a.rest_position_mm, 1>>,
              delay |-> a.rest_between_sets_minutes * 60,
              is_active |-> "False"] >>
       \o SetsFrom(a, j + 1)

\* add_cyclic_stretching_progressive: the position of the first set is
\* computed before anything is appended, and its division by
\* number_of_sets - 1 raises ZeroDivisionError for a single set.
Add_cyclic_stretching_progressive(a) ==
  /\ args = <<>>
  /\ args' = <<a>>
  /\ IF a.number_of_sets - 1 = 0
       THEN /\ phase_raised' = "ZeroDivisionError"
            /\ UNCHANGED <<mecha_stimu, mecha_stimu_on>>
       ELSE LET cmds == SetsFrom(a, 0) IN
            /\ mecha_stimu' = mecha_stimu
                 \o [k \in 1..Len(cmds) |-> cmds[k].position]
            /\ mecha_stimu_on' = mecha_stimu_on
                 \o [k \in 1..Len(cmds) |->
                       <<cmds[k].delay, cmds[k].is_active>>]
            /\ UNCHANGED phase_raised
  /\ UNCHANGED <<elec_stimu_on, time_orange_on, stimu_mecha_timestamps,
                 stimu_elec_timestamps, is_active_timestamps, list_led,
                 built>>
  /\ UNCHANGED <<daemon_vars, sent, router_vars, clock, announced,
                 conn_vars, in_flight>>

NextPhase == \E a \in PhaseArgs : Add_cyclic_stretching_progressive(a)

\* A new builder on which the method is called once.
SpecPhase == Init /\ [][NextPhase]_vars

\* The number of segments a protocol holds, both channels together.
MaxSegs == 5
\* Durations of the segments, in seconds, and lead times of the indicator.
Durations == {0, 1, 2}
LeadTimes == {1, 2}
\* A segment as self._mecha_stimu_on and self._elec_stimu_on hold it:
\* (delay, is_active).  A point of a timestamp list: (timestamp, value).
\* The values are Python's True and False, and the empty list that
\* "self._mecha_stimu and ..." gives for a channel without segments.
Segs == Durations \X {"True", "False"}

\* bool(v)
Truthy(v) == v = "True"
\* The first operand alone.
Or_first(a, b) == a
\* a or b
Or(a, b) == IF Truthy(a) THEN a ELSE b

\* add_electrical_stimulation appends an active segment and then a resting
\* one, add_electrical_rest a resting one: an active segment of the
\* electrical channel is always followed by a resting segment.
ElecBuilt(segs) ==
  \A i \in 1..Len(segs) :
    segs[i][2] = "True" => i < Len(segs) /\ segs[i + 1][2] = "False"

\* The first point with True as the value of a channel without segments.
FirstPoint_true(on) == <<0, IF Len(on) > 1 THEN on[2][2] ELSE "True">>

\* self._mecha_stimu_on[0] = (0., self._mecha_stimu and
\* self._mecha_stimu_on[1][1]); self._mecha_stimu is non-empty exactly when
\* segments follow the placeholder.
FirstPoint(on) == <<0, IF Len(on) > 1 THEN on[2][2] ELSE "[]">>

\* The cumulative loop with each point taking the flag of the segment whose
\* delay it adds, instead of the flag of the segment after it.
RECURSIVE Cumulate_own_flag(_, _)
Cumulate_own_flag(on, k) ==
  IF k <= 1 THEN <<on[1]>>
  ELSE LET prev == Cumulate_own_flag(on, k - 1) IN
       Append(prev, <<on[k][1] + prev[k - 1][1], on[k][2]>>)

\* The first k points of the cumulative loop over zip(on[1:-1], on[2:]):
\* each point adds the delay of a segment to the last timestamp and takes
\* the flag of the segment after it.
RECURSIVE Cumulate(_, _)
Cumulate(on, k) ==
  IF k <= 1 THEN <<on[1]>>
  ELSE LET prev == Cumulate(on, k - 1) IN
       Append(prev, <<on[k][1] + prev[k - 1][1], on[k + 1][2]>>)

\* del s[i]
Del(s, i) == SubSeq(s, 1, i - 1) \o SubSeq(s, i + 1, Len(s))
\* The deletions of the reversed to_remove list, largest index first.
RECURSIVE DelAll(_, _)
DelAll(s, rem) ==
  IF rem = {} THEN s
  ELSE LET i == CHOOSE x \in rem : \A y \in rem : y <= x IN
       DelAll(Del(s, i), rem \ {i})

\* The timestamps left as they are: redundant points are kept.
Simplify_none(ts) == ts

\* The simplification that removes the earlier point of two equal ones.
Simplify_first(ts) ==
  DelAll(ts, {i \in 1..(Len(ts) - 1) : ts[i][2] = ts[i + 1][2]})
\* Simplifying a timestamps list: every point whose value equals the value of
\* the point before it is removed.
Simplify(ts) ==
  DelAll(ts, {i + 1 : i \in {j \in 1..(Len(ts) - 1) : ts[j][2] = ts[j + 1][2]}})

\* The timestamps list of one channel, from its segment list with the first
\* element already overwritten.
ChannelTimestamps(on) ==
  IF Len(on) > 1 THEN Simplify(Cumulate(on, Len(on) - 1)) ELSE <<on[1]>>

\* The while loop with the timestamp of the mechanical point appended in
\* every case, instead of the later of the two timestamps.
RECURSIVE MergeLoop_mecha_ts(_, _, _, _, _)
MergeLoop_mecha_ts(M, E, im, ie, acc) ==
  LET m == M[im]
      e == E[ie]
      acc2 == Append(acc, <<m[1],
                            Or(m[2], e[2])>>)
      next_mecha_ts == IF im + 1 <= Len(M) THEN <<M[im + 1][1]>> ELSE <<>>
      next_elec_ts == IF ie + 1 <= Len(E) THEN <<E[ie + 1][1]>> ELSE <<>>
  IN IF next_mecha_ts = <<>> /\ next_elec_ts = <<>> THEN acc2
     ELSE IF next_mecha_ts = <<>>
       THEN acc2 \o SubSeq(E, ie + 1, Len(E))
     ELSE IF next_elec_ts = <<>>
       THEN acc2 \o SubSeq(M, im + 1, Len(M))
     ELSE IF next_mecha_ts[1] > next_elec_ts[1]
       THEN MergeLoop_mecha_ts(M, E, im, ie + 1, acc2)
     ELSE IF next_elec_ts[1] > next_mecha_ts[1]
       THEN MergeLoop_mecha_ts(M, E, im + 1, ie, acc2)
     ELSE MergeLoop_mecha_ts(M, E, im + 1, ie + 1, acc2)

\* The while loop advancing only the electrical index when the two next
\* timestamps are equal.
RECURSIVE MergeLoop_tie_twice(_, _, _, _, _)
MergeLoop_tie_twice(M, E, im, ie, acc) ==
  LET m == M[im]
      e == E[ie]
      acc2 == Append(acc, <<IF m[1] > e[1] THEN m[1] ELSE e[1],
                            Or(m[2], e[2])>>)
      next_mecha_ts == IF im + 1 <= Len(M) THEN <<M[im + 1][1]>> ELSE <<>>
      next_elec_ts == IF ie + 1 <= Len(E) THEN <<E[ie + 1][1]>> ELSE <<>>
  IN IF next_mecha_ts = <<>> /\ next_elec_ts = <<>> THEN acc2
     ELSE IF next_mecha_ts = <<>>
       THEN acc2 \o SubSeq(E, ie + 1, Len(E))
     ELSE IF next_elec_ts = <<>>
       THEN acc2 \o SubSeq(M, im + 1, Len(M))
     ELSE IF next_mecha_ts[1] > next_elec_ts[1]
       THEN MergeLoop_tie_twice(M, E, im, ie + 1, acc2)
     ELSE IF next_elec_ts[1] > next_mecha_ts[1]
       THEN MergeLoop_tie_twice(M, E, im + 1, ie, acc2)
     ELSE MergeLoop_tie_twice(M, E, im, ie + 1, acc2)

\* The while loop that builds is_active_timestamps, from the indexes im
\* and ie on, acc being the list built so far.
RECURSIVE MergeLoop(_, _, _, _, _)
MergeLoop(M, E, im, ie, acc) ==
  LET m == M[im]
      e == E[ie]
      acc2 == Append(acc, <<IF m[1] > e[1] THEN m[1] ELSE e[1],
                            Or(m[2], e[2])>>)
      next_mecha_ts == IF im + 1 <= Len(M) THEN <<M[im + 1][1]>> ELSE <<>>
      next_elec_ts == IF ie + 1 <= Len(E) THEN <<E[ie + 1][1]>> ELSE <<>>
  IN IF next_mecha_ts = <<>> /\ next_elec_ts = <<>> THEN acc2
     ELSE IF next_mecha_ts = <<>>
       THEN acc2 \o SubSeq(E, ie + 1, Len(E))
     ELSE IF next_elec_ts = <<>>
       THEN acc2 \o SubSeq(M, im + 1, Len(M))
     ELSE IF next_mecha_ts[1] > next_elec_ts[1]
       THEN MergeLoop(M, E, im, ie + 1, acc2)
     ELSE IF next_elec_ts[1] > next_mecha_ts[1]
       THEN MergeLoop(M, E, im + 1, ie, acc2)
     ELSE MergeLoop(M, E, im + 1, ie + 1, acc2)

\* The entries with the warning entry put before the resting entry.
RECURSIVE LedEntries_warning_first(_, _, _)
LedEntries_warning_first(ts, L, i) ==
  IF i >= Len(ts) THEN <<>>
  ELSE LET d == ts[i + 1][1] - ts[i][1] IN
       (IF ~Truthy(ts[i][2]) /\ d > L
          THEN <<[delay |-> L, value |-> 1], [delay |-> d - L, value |-> 0]>>
          ELSE <<[delay |-> d, value |-> 2]>>)
       \o LedEntries_warning_first(ts, L, i + 1)

\* The entries with "greater than or equal" as the test of the interval
\* against the lead time.
RECURSIVE LedEntries_ge(_, _, _)
LedEntries_ge(ts, L, i) ==
  IF i >= Len(ts) THEN <<>>
  ELSE LET d == ts[i + 1][1] - ts[i][1] IN
       (IF ~Truthy(ts[i][2]) /\ d >= L
          THEN <<[delay |-> d - L, value |-> 0], [delay |-> L, value |-> 1]>>
          ELSE <<[delay |-> d, value |-> 2]>>)
       \o LedEntries_ge(ts, L, i + 1)

\* Slip of the list of the indicator: the resting entry of a split interval
\* lasts for the whole interval.
RECURSIVE LedEntries_full_rest(_, _, _)
LedEntries_full_rest(ts, L, i) ==
  IF i >= Len(ts) THEN <<>>
  ELSE LET d == ts[i + 1][1] - ts[i][1] IN
       (IF ~Truthy(ts[i][2]) /\ d > L
          THEN <<[delay |-> d, value |-> 0], [delay |-> L, value |-> 1]>>
          ELSE <<[delay |-> d, value |-> 2]>>)
       \o LedEntries_full_rest(ts, L, i + 1)

\* Slip of the list of the indicator: a closing entry of zero length is
\* emitted for the last point as well.
RECURSIVE LedEntries_closing(_, _, _)
LedEntries_closing(ts, L, i) ==
  IF i > Len(ts) THEN <<>>
  ELSE LET d == IF i = Len(ts) THEN 0 ELSE ts[i + 1][1] - ts[i][1] IN
       (IF ~Truthy(ts[i][2]) /\ d > L
          THEN <<[delay |-> d - L, value |-> 0], [delay |-> L, value |-> 1]>>
          ELSE <<[delay |-> d, value |-> 2]>>)
       \o LedEntries_closing(ts, L, i + 1)

\* The entries of self._list_led for the pairs of consecutive points from
\* the i-th on: value 0 and value 1 for an inactive interval longer than
\* the lead time L, value 2 in every other case.
RECURSIVE LedEntries(_, _, _)
LedEntries(ts, L, i) ==
  IF i >= Len(ts) THEN <<>>
  ELSE LET d == ts[i + 1][1] - ts[i][1] IN
       (IF ~Truthy(ts[i][2]) /\ d > L
          THEN <<[delay |-> d - L, value |-> 0], [delay |-> L, value |-> 1]>>
          ELSE <<[delay |-> d, value |-> 2]>>)
       \o LedEntries(ts, L, i + 1)

\* _build_led_list (the position list, used for plotting only, is left out).
Build_led_list ==
  /\ mecha_stimu_on' = [mecha_stimu_on EXCEPT ![1] = FirstPoint(mecha_stimu_on)]
  /\ elec_stimu_on' = [elec_stimu_on EXCEPT ![1] = FirstPoint(elec_stimu_on)]
  /\ stimu_mecha_timestamps' = ChannelTimestamps(mecha_stimu_on')
  /\ stimu_elec_timestamps' = ChannelTimestamps(elec_stimu_on')
  /\ is_active_timestamps' =
       MergeLoop(stimu_mecha_timestamps', stimu_elec_timestamps', 1, 1, <<>>)
  /\ list_led' = LedEntries(is_active_timestamps', time_orange_on, 1)
  /\ built' = TRUE
  /\ UNCHANGED time_orange_on
  /\ UNCHANGED <<daemon_vars, sent, router_vars, clock, announced,
                 conn_vars, phase_vars, in_flight>>

\* A protocol of three mechanical phases (5 s resting, 10 s active, 5 s
\* resting) without electrical phases.
ThreePhases ==
  << <<0, "False">>, <<5, "False">>, <<10, "True">>, <<5, "False">> >>

\* A builder after any calls of the add_ methods: the two segment lists
\* behind the placeholder, and a lead time; no list has been built yet.
\* The lists are all the short ones, and the three-phase protocol with a
\* lead time of 3 s.
InitLed ==
  /\ DaemonInit
  /\ password_file = Password
  /\ sent = 0
  /\ RouterInit
  /\ \/ /\ \E nm \in 0..MaxSegs : \E ne \in 0..(MaxSegs - nm) :
            /\ mecha_stimu_on \in
                 {<< <<0, "False">> >> \o segs : segs \in [1..nm -> Segs]}
            /\ elec_stimu_on \in
                 {<< <<0, "False">> >> \o segs :
                    segs \in {x \in [1..ne -> Segs] : ElecBuilt(x)}}
        /\ time_orange_on \in LeadTimes
     \/ /\ mecha_stimu_on = ThreePhases
        /\ elec_stimu_on = << <<0, "False">> >>
        /\ time_orange_on = 3
  /\ stimu_mecha_timestamps = <<>>
  /\ stimu_elec_timestamps = <<>>
  /\ is_active_timestamps = <<>>
  /\ list_led = <<>>
  /\ built = FALSE
  /\ clock = 0
  /\ announced = <<>>
  /\ ConnInit
  /\ PhaseInit
  /\ in_flight = <<>>

NextLed == Build_led_list

SpecLed == InitLed /\ [][NextLed]_vars

(* ======================= properties of the daemon ===================== *)
StartB == Str(<<"Start", "protocol", "b">>)
StopProtocolMsg == Str(<<"Stop", "protocol">>)
StopServerMsg == Str(<<"Stop", "server">>)
Escalation == <<"SIGINT", "terminate", "kill">>

\* The control loop takes the command at the head of the queue in this step.
Dequeues(key) ==
  /\ pc = "get"
  /\ message_queue # <<>>
  /\ Head(message_queue).isstr
  /\ Matches(key, Head(message_queue).words)
  /\ message' = <<Head(message_queue)>>

\* The last wait of _stop_protocol is over and did not see the child exit.
StuckAfterKill ==
  /\ signals = Escalation
  /\ pc # "stop_wait3"
  /\ ret # <<0>>

\* C1: at most one protocol child launched by the daemon is alive in every
\* reachable state, and a child is launched only in a step that starts with
\* the handle None or with the handle's process already exited.
C1_AtMostOneChild ==
  /\ [](Cardinality(children) <= 1)
  /\ [][children' \ children # {} =>
          (protocol = 0 \/ protocol \notin children)]_vars

\* A second child has been launched after the first one exited.
C1_Witness ==
  /\ pc = "start_wait1"
  /\ is_active
  /\ children = {protocol}

\* C2: a Stop server processed while a protocol runs, whose child is still
\* alive after SIGINT, terminate, kill and their waits, is answered with
\* "Error ! Could not stop the current protocol, server not stopped", not
\* with "Stopping the server and the MQTT broker", and the daemon stays in
\* Serving.
C2_StopServerStuck ==
  (caller = "server" /\ StuckAfterKill) =>
    /\ daemon = "Serving"
    /\ pc # "done"
    /\ published # <<>>
    /\ published[Len(published)] =
         "Error ! Could not stop the current protocol, server not stopped"
    /\ \A i \in 1..Len(published) :
         published[i] # "Stopping the server and the MQTT broker"

\* C3: a Stop protocol whose child is still alive after the wait that
\* follows kill is reported: _stop_protocol publishes "Error ! Could not
\* stop the protocol" and returns 1, and the control loop goes on.
C3_StuckReported ==
  (caller = "cmd" /\ StuckAfterKill) =>
    /\ ret = <<1>>
    /\ published # <<>>
    /\ published[Len(published)] = "Error ! Could not stop the protocol"
    /\ daemon = "Serving"

\* C4: once the handler of a Download, Start or Upload command or of a
\* payload that is not text is over, a reply has been published and the
\* daemon is still in Serving: no such command ends the control loop.
C4_HandlerFailureReplied ==
  ( /\ message # <<>>
    /\ pc \in {"sleep", "done"}
    /\ \/ ~message[1].isstr
       \/ FirstMatch(message[1]) \in
            {"Download protocol", "Start protocol", "Upload protocol"} ) =>
    /\ daemon = "Serving"
    /\ published # <<>>

\* C5: the daemon is in Stopping only through a Stop server command and with
\* no protocol child alive, and every other recognized command leaves the
\* daemon in Serving.
C5_StoppingOnlyByStopServer ==
  /\ daemon = "Stopping" => (message = <<StopServerMsg>> /\ children = {})
  /\ ( /\ message # <<>>
       /\ message[1].isstr
       /\ FirstMatch(message[1]) \notin {"", "Stop server"} ) =>
       daemon = "Serving"

\* C6: when __call__ has exited, by Stop server or by an exception that left
\* the control loop, no protocol child is running.
C6_NoChildLeftAtExit ==
  pc = "done" => children = {}

\* C7: a Start protocol taken from the queue while the child of the handle
\* is alive replies "Protocol already running, stop it before starting new
\* one", launches no process and leaves the handle, Protocol.py and the
\* package's __init__.py unchanged.
C7_StartWhileRunning ==
  [][(Dequeues("Start protocol") /\ protocol \in children) =>
       /\ published' = Append(published, AlreadyRunning)
       /\ pc' = "sleep"
       /\ UNCHANGED <<protocol, children, exit_code, protocol_file,
                      init_file, daemon>>]_vars

\* Start protocol b has been refused while the child of protocol a runs.
C7_Witness ==
  /\ pc = "sleep"
  /\ message = <<StartB>>
  /\ is_active
  /\ protocol \in children
  /\ protocol_file = <<"a">>
  /\ published =
       <<AlreadyRunning>>

\* C8: a Stop protocol taken from the queue when no protocol was started or
\* when the last child has exited replies "No protocol currently running !",
\* sends no signal, returns 0 and leaves the handle unchanged.
C8_StopWhenNotRunning ==
  [][(Dequeues("Stop protocol") /\ protocol \notin children) =>
       /\ published' = Append(published, "No protocol currently running !")
       /\ signals' = <<>>
       /\ ret' = <<0>>
       /\ pc' = "sleep"
       /\ UNCHANGED <<protocol, children, exit_code, daemon>>]_vars

\* Stop protocol has been answered after the last child had exited.
C8_Witness ==
  /\ pc = "sleep"
  /\ message = <<StopProtocolMsg>>
  /\ protocol # 0
  /\ protocol \notin children
  /\ signals = <<>>
  /\ ret = <<0>>

\* C9: the requests of one _stop_protocol are a prefix of SIGINT, terminate,
\* kill; each is sent while the child is still alive, terminate at the end
\* of the first wait and kill at the end of the second; a wait that sees the
\* child exited sends nothing more and ends _stop_protocol.
C9_EscalationOrder ==
  [][/\ (signals' # signals /\ signals' # <<>>) =>
          /\ Len(signals') = Len(signals) + 1
          /\ signals' = SubSeq(Escalation, 1, Len(signals'))
          /\ protocol \in children
          /\ Len(signals') = 2 => pc = "stop_wait1"
          /\ Len(signals') = 3 => pc = "stop_wait2"
     /\ ( /\ pc \in {"stop_wait1", "stop_wait2"}
          /\ pc' # pc
          /\ protocol \notin children ) =>
          (signals' = signals /\ pc' \in {"sleep", "done"})]_vars

\* The three requests have been sent.
C9_Witness ==
  /\ signals = Escalation
  /\ pc = "stop_wait3"

\* C10: a wait of _stop_protocol that sees the child exited is followed by
\* exactly one reply of _stop_protocol, "Protocol terminated gracefully" if
\* the exit code is 0 and "Protocol terminated with an error" if not, and by
\* the return value 0 (after which _stop_server announces the stop).
C10_ExitReply ==
  [][( /\ pc \in {"stop_wait1", "stop_wait2", "stop_wait3"}
       /\ pc' # pc
       /\ protocol \notin children ) =>
       LET reply == IF exit_code = 0 THEN "Protocol terminated gracefully"
                    ELSE "Protocol terminated with an error" IN
         /\ ret' = <<0>>
         /\ published' =
              IF caller = "server"
                THEN published \o
                       <<reply, "Stopping the server and the MQTT broker">>
                ELSE Append(published, reply)]_vars

\* Stop protocol has ended a child that exited with a non-zero code.
C10_Witness ==
  /\ pc = "sleep"
  /\ signals # <<>>
  /\ ret = <<0>>
  /\ exit_code = 1
  /\ published = <<"Protocol terminated with an error">>

(* C11: a "Print status" command publishes exactly one reply, fixed by the
   state of the child at that moment: "No protocol started yet" when no
   child was ever launched, "Protocol running" when the child is alive,
   "Last protocol terminated gracefully" when it ended with exit code 0 and
   "Last protocol terminated with an error" when it ended with any other
   code; the handle, the child, the store and both queues' pending content
   are left as they were. *)
PrintStatusMsg == Str(<<"Print", "status">>)
StatusReply ==
  IF protocol = 0 THEN "No protocol started yet"
  ELSE IF protocol \in children THEN "Protocol running"
  ELSE IF exit_code = 0 THEN "Last protocol terminated gracefully"
  ELSE "Last protocol terminated with an error"
C11_StatusReply ==
  [][Dequeues("Print status") =>
       /\ published' = Append(published, StatusReply)
       /\ pc' = "sleep"
       /\ message_queue' = Tail(message_queue)
       /\ UNCHANGED <<daemon, is_active, protocol, children, exit_code,
                      store, protocol_queue, password_file, init_file,
                      protocol_file, signals>>]_vars
\* A status query answered after a child ended with a non-zero exit code.
C11_Witness ==
  /\ pc = "sleep"
  /\ message = <<PrintStatusMsg>>
  /\ protocol # 0
  /\ protocol \notin children
  /\ exit_code = 1
  /\ published = <<"Last protocol terminated with an error">>

(* C12: an "Upload protocol <name> <password>" command whose password differs
   from the content of the password file is answered with the one reply
   "Error ! Wrong password"; the store is untouched and no payload leaves
   the protocol-upload queue. *)
UploadBad == Str(<<"Upload", "protocol", "b", "bad">>)
UploadGood == Str(<<"Upload", "protocol", "b", Password>>)
C12_WrongPassword ==
  [][(/\ Dequeues("Upload protocol")
      /\ password_file # NoFile
      /\ Head(message_queue).words[4] # password_file)
       => /\ published' = Append(published, "Error ! Wrong password")
          /\ pc' = "sleep"
          /\ UNCHANGED <<store, protocol_queue, daemon>>]_vars
\* A rejected upload while a payload is waiting on the upload queue.
C12_Witness ==
  /\ pc = "sleep"
  /\ message = <<UploadBad>>
  /\ published = <<"Error ! Wrong password">>
  /\ protocol_queue # <<>>
  /\ store[<<"b">>] = NoFile

(* C13: an "Upload protocol <name> <password>" command with the right
   password waits for a payload; the step that ends the wait takes the
   oldest payload of the protocol-upload queue and no other, stores it under
   the name, leaves every other protocol as it was and replies "Protocol
   successfully uploaded"; with no payload it replies "Error ! No protocol
   received" and changes neither the store nor the queue. *)
C13_Upload ==
  [][/\ (/\ Dequeues("Upload protocol")
         /\ password_file # NoFile
         /\ Head(message_queue).words[4] = password_file)
          => /\ pc' = "save_wait"
             /\ UNCHANGED <<store, protocol_queue, published, daemon>>
     /\ (pc = "save_wait" /\ pc' # "save_wait")
          => /\ pc' = "sleep"
             /\ UNCHANGED daemon
             /\ LET name == <<message[1].words[3]>> IN
                  IF protocol_queue # <<>>
                    THEN /\ store'[name] = Head(protocol_queue)
                         /\ \A n \in DOMAIN store \ {name} :
                              store'[n] = store[n]
                         /\ DOMAIN store' = DOMAIN store \cup {name}
                         /\ protocol_queue' = Tail(protocol_queue)
                         /\ published' = Append(published,
                               "Protocol successfully uploaded")
                    ELSE /\ UNCHANGED <<store, protocol_queue>>
                         /\ published' = Append(published,
                               "Error ! No protocol received")]_vars
\* A successful upload that took the older of two different payloads.
C13_Witness ==
  /\ pc = "sleep"
  /\ message = <<UploadGood>>
  /\ published = <<"Protocol successfully uploaded">>
  /\ store[<<"b">>] = "P1"
  /\ protocol_queue = <<"P2">>

(* C14: a text command that is none of "Return protocol list", "Print
   status", "Upload protocol <name> <password>", "Download protocol <name>",
   "Start protocol <name>", "Stop protocol", "Stop server" gets exactly one
   reply, "Error ! Invalid command message"; no handler runs, and the
   handle, the child, the store and the upload queue are unchanged. *)
InGrammar(w) ==
  \/ w \in { <<"Return", "protocol", "list">>, <<"Print", "status">>,
              <<"Stop", "protocol">>, <<"Stop", "server">> }
  \/ Len(w) >= 4 /\ w[1] = "Upload" /\ w[2] = "protocol"
  \/ Len(w) >= 3 /\ w[1] \in {"Download", "Start"} /\ w[2] = "protocol"
C14_InvalidCommand ==
  [][(/\ pc = "get"
      /\ message_queue # <<>>
      /\ Head(message_queue).isstr
      /\ ~InGrammar(Head(message_queue).words)
      /\ message' = <<Head(message_queue)>>)
       => /\ published' = Append(published,
                                 "Error ! Invalid command message")
          /\ pc' = "sleep"
          /\ message_queue' = Tail(message_queue)
          /\ UNCHANGED <<daemon, is_active, caller, ret, signals, protocol,
                         children, exit_code, store, protocol_queue,
                         init_file, protocol_file>>]_vars
\* "Stop protocol now" answered as invalid while a child is running.
C14_Witness ==
  /\ pc = "sleep"
  /\ message = <<Str(<<"Stop", "protocol", "now">>)>>
  /\ published = <<"Error ! Invalid command message">>
  /\ protocol \in children
  /\ signals = <<>>

(* C15: commands are dispatched in the order they were put on the command
   queue, each at most once and at most one per iteration of the control
   loop: the queue always holds the commands not yet taken, oldest first;
   a command leaves the queue only as its head, at the start of an
   iteration, when no handler is running; and the loop sleeps before it
   looks at the queue again. *)
C15_Fifo ==
  /\ [](\A i \in 1..Len(message_queue) :
          message_queue[i].seq = sent - Len(message_queue) + i)
  /\ [][/\ message' # message /\ message' # <<>>
           => /\ pc = "get"
              /\ message = <<>>
              /\ message_queue # <<>>
              /\ message' = <<Head(message_queue)>>
              /\ message_queue' = Tail(message_queue)
              /\ pc' # "get"
        /\ message_queue' # message_queue
           => \/ /\ message_queue # <<>>
                 /\ message_queue' = Tail(message_queue)
                 /\ message' # message
              \/ /\ Len(message_queue') = Len(message_queue) + 1
                 /\ SubSeq(message_queue', 1, Len(message_queue))
                      = message_queue
                 /\ UNCHANGED message
        /\ (pc' = "get" /\ pc # "get") => pc = "top"
        /\ (pc' = "top" /\ pc # "top") => pc = "sleep" /\ message' = <<>>
       ]_vars
\* The first of two queued commands is being handled, the second waits.
C15_Witness ==
  /\ pc = "start_wait1"
  /\ message # <<>>
  /\ message[1].seq = 1
  /\ sent = 3
  /\ Len(message_queue) = 2
  /\ message_queue[1].words = <<"Print", "status">>
  /\ message_queue[2].words = <<"Stop", "protocol", "now">>

(* C16: when the payload of an inbound message unpickles, the callback puts
   the value once, at the end of the queue kept for the message's topic, and
   touches no other queue; a message on a topic without a queue changes no
   queue.  This holds for the daemon's callback (command topic, upload
   topic) and for the client's (status, data, busy, download and list
   topics). *)
Delivered == received' = received + 1
DaemonQueueOf(topic) ==
  IF topic = "Remote_control" THEN "message_queue"
  ELSE IF topic = "Protocols_upload" THEN "protocol_queue"
  ELSE ""
RegisteredClientQueue(topic) ==
  IF topic = "Server_status" THEN "answer_queue"
  ELSE IF topic = "('t', 'pos')" THEN "data_queue"
  ELSE IF topic = "('busy',)" THEN "is_busy_queue"
  ELSE IF topic = "Protocols_download" THEN "protocol_queue"
  ELSE IF topic = "Protocols_list" THEN "protocol_list_queue"
  ELSE ""
C16_Routing ==
  [][Delivered =>
      LET to == mqtt_message'[1]
          topic == mqtt_message'[2]
          payload == mqtt_message'[3] IN
      payload[1] = "pickle" =>
        IF to = "daemon"
          THEN /\ UNCHANGED client_queues
               /\ message_queue' =
                    IF DaemonQueueOf(topic) = "message_queue"
                      THEN Append(message_queue, payload[2])
                      ELSE message_queue
               /\ protocol_queue' =
                    IF DaemonQueueOf(topic) = "protocol_queue"
                      THEN Append(protocol_queue, payload[2])
                      ELSE protocol_queue
          ELSE /\ UNCHANGED <<message_queue, protocol_queue>>
               /\ \A q \in ClientQueueNames :
                    client_queues'[q] =
                      IF RegisteredClientQueue(topic) = q
                        THEN Append(client_queues[q], payload[2])
                        ELSE client_queues[q]]_vars
\* The client has put a text from the status topic on answer_queue after a
\* message on an unknown topic left every queue empty.
C16_Witness ==
  /\ received = 2
  /\ mqtt_message = <<"client", "Server_status",
                      Dumps(Str(<<"Print", "status">>))>>
  /\ client_queues["answer_queue"] = <<Str(<<"Print", "status">>)>>
  /\ \A q \in ClientQueueNames \ {"answer_queue"} : client_queues[q] = <<>>
  /\ message_queue = <<>>
  /\ protocol_queue = <<>>

(* C17: on every subscribed topic, a message whose payload does not unpickle
   is dropped silently: no queue changes, nothing is published and no
   exception leaves the callback. *)
C17_SilentDrop ==
  [][Delivered =>
      LET to == mqtt_message'[1]
          topic == mqtt_message'[2]
          payload == mqtt_message'[3] IN
      (/\ payload[1] # "pickle"
       /\ \/ to = "daemon" /\ DaemonQueueOf(topic) # ""
          \/ to = "client" /\ RegisteredClientQueue(topic) # "")
        => /\ UNCHANGED <<message_queue, protocol_queue, client_queues>>
           /\ UNCHANGED published
           /\ raised' = "" /\ client_raised' = ""]_vars

(* C18: for every channel with at least one segment, the last timestamp of
   the channel's simplified timestamps list built by _build_led_list is the
   sum of the delays of all the segments of the channel. *)
RECURSIVE SumDelays(_, _)
SumDelays(on, k) == IF k < 2 THEN 0 ELSE on[k][1] + SumDelays(on, k - 1)
TotalDuration(on) == SumDelays(on, Len(on))
LastOf(ts) == ts[Len(ts)]
C18_FinalTimestamp ==
  built =>
    /\ Len(mecha_stimu_on) > 1 =>
         LastOf(stimu_mecha_timestamps)[1] = TotalDuration(mecha_stimu_on)
    /\ Len(elec_stimu_on) > 1 =>
         LastOf(stimu_elec_timestamps)[1] = TotalDuration(elec_stimu_on)

(* C19: for every channel with at least one segment, the simplified
   timestamps list has no two neighbouring points with the same value, and
   it starts with the first point of the list before the simplification:
   timestamp 0 with the flag of the first segment. *)
NoEqualNeighbours(ts) ==
  \A i \in 1..(Len(ts) - 1) : Truthy(ts[i][2]) # Truthy(ts[i + 1][2])
C19_Collapsed ==
  built =>
    /\ Len(mecha_stimu_on) > 1 =>
         /\ NoEqualNeighbours(stimu_mecha_timestamps)
         /\ stimu_mecha_timestamps[1] = <<0, mecha_stimu_on[2][2]>>
    /\ Len(elec_stimu_on) > 1 =>
         /\ NoEqualNeighbours(stimu_elec_timestamps)
         /\ stimu_elec_timestamps[1] = <<0, elec_stimu_on[2][2]>>
\* Four mechanical segments, the first two active and the last two resting:
\* the simplification has removed a point from each pair.
C19_Witness ==
  /\ built
  /\ Len(mecha_stimu_on) = 5
  /\ mecha_stimu_on[2][2] = "True" /\ mecha_stimu_on[3][2] = "True"
  /\ mecha_stimu_on[4][2] = "False" /\ mecha_stimu_on[5][2] = "False"
  /\ mecha_stimu_on[2][1] = 1 /\ mecha_stimu_on[3][1] = 2
  /\ stimu_mecha_timestamps = << <<0, "True">>, <<3, "False">> >>

(* C20: the list is_active_timestamps returned by _build_led_list, merged
   from the two simplified timestamps lists, has no two neighbouring points
   with the same value. *)
C20_MergedCollapsed ==
  built => NoEqualNeighbours(is_active_timestamps)

(* C21: merging is commutative: the list merged from the two timestamps
   lists has the same timestamps and the same active-or-not values as the
   list merged with the two lists exchanged (the mechanical list given as
   the electrical one and the other way round). *)
ActiveOrNot(ts) == [i \in 1..Len(ts) |-> <<ts[i][1], Truthy(ts[i][2])>>]
C21_MergeCommutative ==
  built =>
    ActiveOrNot(is_active_timestamps) =
      ActiveOrNot(MergeLoop(stimu_elec_timestamps, stimu_mecha_timestamps,
                            1, 1, <<>>))
\* Two different lists whose changes interleave: the mechanical channel
\* changes first, then the electrical one, then the mechanical one again.
C21_Witness ==
  /\ built
  /\ Len(stimu_mecha_timestamps) = 3
  /\ Len(stimu_elec_timestamps) = 2
  /\ stimu_mecha_timestamps[2][1] < stimu_elec_timestamps[2][1]
  /\ stimu_elec_timestamps[2][1] < stimu_mecha_timestamps[3][1]
  /\ Len(is_active_timestamps) = 4

(* C22: the indicator list splits a resting interval only when it is
   strictly longer than the lead time: there are as many warning entries as
   resting intervals longer than the lead time, so an interval of exactly
   the lead time or shorter gives none; every warning entry follows a
   resting entry, and every resting entry has a strictly positive length. *)
Intervals == 1..(Len(is_active_timestamps) - 1)
Length(j) == is_active_timestamps[j + 1][1] - is_active_timestamps[j][1]
Resting(j) == ~Truthy(is_active_timestamps[j][2])
C22_StrictSplit ==
  built =>
    /\ Cardinality({i \in 1..Len(list_led) : list_led[i].value = 1})
         = Cardinality({j \in Intervals :
                         Resting(j) /\ Length(j) > time_orange_on})
    /\ \A i \in 1..Len(list_led) :
         /\ list_led[i].value = 0 => list_led[i].delay > 0
         /\ list_led[i].value = 1 =>
              /\ i > 1
              /\ list_led[i - 1].value = 0
              /\ list_led[i].delay = time_orange_on
\* One resting interval of exactly the lead time, one that is longer, and a
\* single warning entry.
C22_Witness ==
  /\ built
  /\ \E j \in Intervals : Resting(j) /\ Length(j) = time_orange_on
  /\ \E j \in Intervals : Resting(j) /\ Length(j) > time_orange_on
  /\ Cardinality({i \in 1..Len(list_led) : list_led[i].value = 1}) = 1

(* C23: for the mechanical segments (5, resting), (10, active),
   (5, resting), no electrical segment and a lead time of 3, the merged
   list is (0, resting), (5, active), (15, resting) and the indicator list
   is resting for 2 (from 0 to 2), warning for 3 (from 2 to 5) and active
   for 10 (from 5 to 15); the last merged point, resting from 15 on, is the
   end of the list. *)
ThreePhasesGiven ==
  /\ SubSeq(mecha_stimu_on, 2, Len(mecha_stimu_on))
       = << <<5, "False">>, <<10, "True">>, <<5, "False">> >>
  /\ Len(elec_stimu_on) = 1
  /\ time_orange_on = 3
C23_Scenario ==
  (built /\ ThreePhasesGiven) =>
    /\ ActiveOrNot(is_active_timestamps)
         = << <<0, FALSE>>, <<5, TRUE>>, <<15, FALSE>> >>
    /\ list_led = << [delay |-> 2, value |-> 0],
                     [delay |-> 3, value |-> 1],
                     [delay |-> 10, value |-> 2] >>
\* The lists of the three-phase protocol have been built.
C23_Witness ==
  /\ built
  /\ ThreePhasesGiven
  /\ Len(is_active_timestamps) = 3
  /\ Len(list_led) = 3

(* C25: for timestamps lists with strictly increasing timestamps, every
   point (t, v) of the merged list has v = m or e, m being the
   value of the last point of the mechanical list with a timestamp <= t and
   e the value of the last point of the electrical list with a timestamp
   <= t, also for the points appended after one list is exhausted. *)
LastValue(ts, t) ==
  LET S == {k \in 1..Len(ts) : ts[k][1] <= t}
  IN ts[CHOOSE k \in S : \A j \in S : j <= k][2]
StrictlyIncreasing(ts) ==
  \A i \in 1..(Len(ts) - 1) : ts[i][1] < ts[i + 1][1]
C25_MergedIsOr ==
  (/\ built
   /\ StrictlyIncreasing(stimu_mecha_timestamps)
   /\ StrictlyIncreasing(stimu_elec_timestamps)) =>
    \A i \in 1..Len(is_active_timestamps) :
      LET t == is_active_timestamps[i][1] IN
      Truthy(is_active_timestamps[i][2]) =
        (\/ Truthy(LastValue(stimu_mecha_timestamps, t))
         \/ Truthy(LastValue(stimu_elec_timestamps, t)))

(* C26: for two timestamps lists with strictly increasing timestamps, the
   merge loop ends with a list whose timestamps are strictly increasing and
   are exactly the timestamps of the two lists, a timestamp that both lists
   hold appearing once. *)
TimestampsOf(ts) == {ts[i][1] : i \in 1..Len(ts)}
C26_MergedTimestamps ==
  (/\ built
   /\ StrictlyIncreasing(stimu_mecha_timestamps)
   /\ StrictlyIncreasing(stimu_elec_timestamps)) =>
    /\ StrictlyIncreasing(is_active_timestamps)
    /\ TimestampsOf(is_active_timestamps)
         = TimestampsOf(stimu_mecha_timestamps)
             \cup TimestampsOf(stimu_elec_timestamps)
    /\ Len(is_active_timestamps)
         = Cardinality(TimestampsOf(stimu_mecha_timestamps)
                         \cup TimestampsOf(stimu_elec_timestamps))
\* A list of two points and a list of three that share their first two
\* timestamps: five points become three.
C26_Witness ==
  /\ built
  /\ Len(stimu_mecha_timestamps) = 2
  /\ Len(stimu_elec_timestamps) = 3
  /\ StrictlyIncreasing(stimu_mecha_timestamps)
  /\ StrictlyIncreasing(stimu_elec_timestamps)
  /\ stimu_mecha_timestamps[2][1] = stimu_elec_timestamps[2][1]
  /\ Len(is_active_timestamps) = 3

(* C27: for every two consecutive merged points (t1, resting), (t2, _) with
   t2 - t1 longer than the lead time L, the indicator list holds, next to
   each other and in this order, a resting entry of length t2 - t1 - L and
   a warning entry of length L, and the lengths of the entries up to that
   warning entry add up to t2: the warning ends exactly at t2. *)
Split(j) == Resting(j) /\ Length(j) > time_orange_on
\* Where the entries of the j-th interval start in the indicator list.
EntryOf(j) == j + Cardinality({k \in 1..(j - 1) : Split(k)})
RECURSIVE SumLed(_)
SumLed(p) == IF p = 0 THEN 0 ELSE list_led[p].delay + SumLed(p - 1)
C27_WarningBeforeActive ==
  built =>
    \A j \in Intervals :
      Split(j) =>
        /\ EntryOf(j) + 1 <= Len(list_led)
        /\ list_led[EntryOf(j)] =
             [delay |-> Length(j) - time_orange_on, value |-> 0]
        /\ list_led[EntryOf(j) + 1] =
             [delay |-> time_orange_on, value |-> 1]
        /\ is_active_timestamps[1][1] + SumLed(EntryOf(j) + 1)
             = is_active_timestamps[j + 1][1]
\* The first and the third interval are resting and longer than the lead
\* time: the second warning is the fifth entry.
C27_Witness ==
  /\ built
  /\ Len(is_active_timestamps) = 4
  /\ Split(1) /\ ~Resting(2) /\ Split(3)
  /\ list_led[5].value = 1

(* C28: a merged interval that is resting and not longer than the lead time
   gives one indicator entry with the value resting (0) and the length of
   the interval, and an entry has the value active (2) only when its merged
   interval is active. *)
C28_ShortRestIsResting ==
  built =>
    \A j \in Intervals :
      /\ (Resting(j) /\ Length(j) <= time_orange_on) =>
           list_led[EntryOf(j)] = [delay |-> Length(j), value |-> 0]
      /\ list_led[EntryOf(j)].value = 2 => ~Resting(j)

(* C29: the first point of each channel's timestamps list is at timestamp 0,
   inactive when the channel has no segment and with the flag of the first
   segment otherwise; every later point is at the start of a segment whose
   flag differs from the flag of the segment before it, and carries the flag
   of that segment: the points are those segments, in order. *)
\* The segments (positions in the list behind the placeholder) that open a
\* run of equal flags, and the i-th of them.
RunStarts(on) == {k \in 2..Len(on) : k = 2 \/ on[k][2] # on[k - 1][2]}
NthRun(on, i) ==
  CHOOSE k \in RunStarts(on) :
    Cardinality({x \in RunStarts(on) : x <= k}) = i
ChannelPoints(on, ts) ==
  /\ ts[1][1] = 0
  /\ Len(on) = 1 => Len(ts) = 1 /\ ~Truthy(ts[1][2])
  /\ Len(on) > 1 =>
       /\ ts[1][2] = on[2][2]
       /\ Len(ts) = Cardinality(RunStarts(on))
       /\ \A i \in 1..Len(ts) :
            LET k == NthRun(on, i) IN
            ts[i] = <<SumDelays(on, k - 1), on[k][2]>>
C29_PointsAreSegmentStarts ==
  built =>
    /\ ChannelPoints(mecha_stimu_on, stimu_mecha_timestamps)
    /\ ChannelPoints(elec_stimu_on, stimu_elec_timestamps)
\* No electrical segment; four mechanical segments in three runs, the
\* second run of two segments.
C29_Witness ==
  /\ built
  /\ Len(elec_stimu_on) = 1
  /\ stimu_elec_timestamps = << <<0, "[]">> >>
  /\ Len(mecha_stimu_on) = 5
  /\ RunStarts(mecha_stimu_on) = {2, 3, 5}
  /\ stimu_mecha_timestamps[3][1] = 5

(* C30: when exactly one channel has no segment, that channel counts as
   resting throughout: the merged list has the timestamps and the
   active-or-not values of the other channel's timestamps list. *)
C30_EmptyChannelIsResting ==
  built =>
    /\ (Len(mecha_stimu_on) = 1 /\ Len(elec_stimu_on) > 1) =>
         ActiveOrNot(is_active_timestamps)
           = ActiveOrNot(stimu_elec_timestamps)
    /\ (Len(elec_stimu_on) = 1 /\ Len(mecha_stimu_on) > 1) =>
         ActiveOrNot(is_active_timestamps)
           = ActiveOrNot(stimu_mecha_timestamps)
\* No mechanical segment and an electrical channel that starts active and
\* changes three times.
C30_Witness ==
  /\ built
  /\ Len(mecha_stimu_on) = 1
  /\ Len(stimu_elec_timestamps) = 4
  /\ stimu_elec_timestamps[1][2] = "True"
  /\ StrictlyIncreasing(stimu_elec_timestamps)
  /\ Len(is_active_timestamps) = 4

(* C24: when a run has been announced with "Protocol started" and its child
   then exits on its own, the control loop eventually publishes "Protocol
   terminated gracefully" or "Protocol terminated with an error".  Stated
   for the child that exits while the loop sleeps at the end of the
   iteration that announced it; runs in which the loop then ends or sends a
   stop signal are left aside. *)
ExitedRightAfterStart ==
  /\ pc = "sleep"
  /\ published # <<>>
  /\ published[Len(published)] = "Protocol started"
  /\ protocol # 0
  /\ protocol \notin children
TerminationPublished ==
  \E i \in 1..Len(published) :
    published[i] \in {"Protocol terminated gracefully",
                      "Protocol terminated with an error"}
C24_ExitAnnounced ==
  ExitedRightAfterStart ~>
    (TerminationPublished \/ pc = "done" \/ signals # <<>>)

(* ================== properties of the builder, continued ============== *)

NoSegments == Len(mecha_stimu_on) = 1 /\ Len(elec_stimu_on) = 1

\* C31: with both segment lists empty the build completes, the merged list
\* has exactly one point, at timestamp 0 and not active, and the list of the
\* indicator is empty.
C31_NothingToSchedule ==
  (built /\ NoSegments) =>
    /\ Len(is_active_timestamps) = 1
    /\ is_active_timestamps[1][1] = 0
    /\ ~Truthy(is_active_timestamps[1][2])
    /\ list_led = <<>>

\* Both segment lists are empty and the lists have been built.
C31_Witness ==
  /\ built
  /\ NoSegments
  /\ stimu_mecha_timestamps = << <<0, "[]">> >>
  /\ stimu_elec_timestamps = << <<0, "[]">> >>
  /\ Len(is_active_timestamps) = 1

(* ================= properties of the daemon, continued ================ *)

Started == "Protocol started"
Crashed == "Error ! Protocol crashed at starting"
\* The grace period made of the two consecutive waits.
GracePeriod == 2 * Start_timeout
\* The control loop launches a child in this step.
Launches == pc = "get" /\ pc' = "start_wait1"
\* _start_protocol publishes its reply in this step.
StartReplies == pc \in {"start_wait1", "start_wait2"} /\ pc' = "sleep"

\* C32: a Start command processed when no child is alive launches exactly
\* one child and publishes exactly one reply, which is the crash message iff
\* the child exits before the grace period of two consecutive waits is over,
\* and "Protocol started" iff the child is still alive when it is over: a
\* child reported as started does not exit before the end of the grace
\* period.
C32_StartGrace ==
  /\ [][Launches =>
          /\ ~Is_protocol_active
          /\ protocol' \notin children
          /\ children' = children \cup {protocol'}]_vars
  /\ [][StartReplies =>
          /\ \E r \in {Started, Crashed} : published' = Append(published, r)
          /\ published'[Len(published')] = Crashed =>
               (Poll # <<>> /\ clock < GracePeriod)
          /\ published'[Len(published')] = Started => Poll = <<>>]_vars
  /\ []((pc = "sleep" /\ published # <<>>
           /\ published[Len(published)] = Started /\ clock < GracePeriod)
          => Poll = <<>>)

\* The control loop is inside _stop_protocol, in one of its waits.
StopWaits == {"stop_wait1", "stop_wait2", "stop_wait3"}
\* The wait that may follow each wait of _stop_protocol.
NextWait(p) ==
  CASE p = "stop_wait1" -> {"stop_wait2"}
    [] p = "stop_wait2" -> {"stop_wait3"}
    [] OTHER -> {}

\* No command leaves the queue in this step.
NoDequeue ==
  /\ message' = message
  /\ \/ message_queue' = message_queue
     \/ \E m \in Messages : message_queue' = Append(message_queue, m)

\* A wait of _stop_protocol is followed by the next one or by its end.
StopAdvances ==
  pc' # pc => pc' \in NextWait(pc) \cup {"sleep", "done"}

\* C33: every execution of _stop_protocol ends after at most three bounded
\* waits, one per escalation level, whether or not the child ever exits (a
\* wait is followed by the next level's wait or by the end of the call, and
\* the call always ends), and no command is taken from the queue between
\* its SIGINT and its end.
C33_StopBounded ==
  /\ [][(pc \in StopWaits) => (StopAdvances /\ NoDequeue)]_vars
  /\ [][(pc' \in StopWaits /\ pc \notin StopWaits) =>
          (pc' = "stop_wait1" /\ signals' = <<"SIGINT">>)]_vars
  /\ (pc \in StopWaits) ~> (pc \notin StopWaits)

\* The child outlived the three waits and _stop_protocol has ended.
C33_Witness ==
  /\ pc = "done"
  /\ signals = Escalation
  /\ protocol \in children
  /\ message = <<StopProtocolMsg>>

(* ============== properties of the connection to the broker ============ *)

\* The daemon makes a connection attempt in this step.
Attempt == attempts' # attempts
Retries == daemon_conn' = "connecting"
Propagates == daemon_conn' = "raised"

\* What follows each outcome of an attempt of the daemon.
AttemptOutcome ==
  /\ daemon_error' = "" => daemon_conn' = "connected"
  /\ daemon_error' \in {"timeout", "gaierror"} => Propagates
  /\ daemon_error' = Refused => (Propagates <=> attempts' = Try_count)
  /\ Retries => daemon_error' = Refused

\* C34: the connect loop of the daemon's constructor always terminates: it
\* makes at most 15 attempts, goes round only after a refused connection,
\* and ends connected or by propagating the error (a timeout or an address
\* error on any attempt, the 15th refusal); after an error the control loop
\* is never started.
C34_ConnectLoop ==
  /\ [](attempts <= Try_count)
  /\ [][Attempt => AttemptOutcome]_vars
  /\ [][(daemon_conn' = "running") =>
          (daemon_conn \in {"connected", "running"})]_vars
  /\ [][(daemon_conn = "raised") => (daemon_conn' = "raised")]_vars
  /\ <>(daemon_conn # "connecting")

\* The fifteenth attempt was refused as the fourteen before, and the
\* constructor has raised.
C34_Witness ==
  /\ daemon_conn = "raised"
  /\ daemon_error = Refused
  /\ attempts = Try_count
  /\ try_count = 0

\* connect_to_broker is called in this step.
Calls == connect_calls' # connect_calls
\* The call returns the text t and leaves is_connected at c.
Returns(t, c) ==
  /\ connect_ret' = <<t>>
  /\ connect_raised' = ""
  /\ is_connected' = c

SamePosition(p, q) == p[1] * q[2] = q[1] * p[2]
\* The mechanical commands of one set.
PerSet(a) == a.number_of_reps * (2 * a.number_of_cycles + 1)

\* C36: add_cyclic_stretching_progressive completes for every
\* number_of_sets >= 1, appends number_of_sets * number_of_reps *
\* (2 * number_of_cycles + 1) mechanical commands, and the first set
\* stretches to the first position, the last set to the last position.
C36_ProgressiveCompletes ==
  args # <<>> =>
    LET a == args[1] IN
      /\ phase_raised = ""
      /\ Len(mecha_stimu) = a.number_of_sets * PerSet(a)
      /\ Len(mecha_stimu_on) = 1 + a.number_of_sets * PerSet(a)
      /\ SamePosition(mecha_stimu[1], <<a.first_stretched_position_mm, 1>>)
      /\ SamePosition(mecha_stimu[(a.number_of_sets - 1) * PerSet(a) + 1],
                      <<a.last_stretched_position_mm, 1>>)

\* The same for two sets and more.
C36_SeveralSets ==
  (args # <<>> /\ args[1].number_of_sets >= 2) => C36_ProgressiveCompletes

(* ================= properties of the daemon, continued ================ *)

\* C37: for every protocol run the daemon publishes at most one termination
\* message: a run whose end _stop_protocol has announced is not announced
\* again by the end-of-protocol detection of a later loop iteration.
C37_OneTermination ==
  announced # <<>> => announced[1] <= 1

\* _save_protocol writes a protocol file in this step.
Stores ==
  /\ pc = "save_wait"
  /\ published' = Append(published, "Protocol successfully uploaded")

\* C38: a successful upload stores the payload that was sent for it, never
\* a payload left in the queue by an earlier attempt whose command was
\* rejected or never arrived.
C38_StoresOwnPayload ==
  [][Stores =>
       store'[GroupName("Upload protocol", message[1].words)]
         = message[1].protocol]_vars

(* ================== properties of the builder, continued ============== *)

\* Every segment of both lists lasts for a strictly positive time.
PositiveDurations ==
  /\ \A k \in 2..Len(mecha_stimu_on) : mecha_stimu_on[k][1] > 0
  /\ \A k \in 2..Len(elec_stimu_on) : elec_stimu_on[k][1] > 0

\* C39: in a list of the indicator built from segments of strictly positive
\* durations, each warning entry (1) comes right after a resting entry (0),
\* and is the last entry or comes right before an active entry (2): a
\* warning is never followed by resting.
C39_WarningPlacement ==
  (built /\ PositiveDurations) =>
    \A k \in 1..Len(list_led) :
      list_led[k].value = 1 =>
        /\ k > 1
        /\ list_led[k - 1].value = 0
        /\ k = Len(list_led) \/ list_led[k + 1].value = 2

\* A long rest, split into resting and warning, is followed by an active
\* interval; every duration is strictly positive.
C39_Witness ==
  /\ built
  /\ PositiveDurations
  /\ Len(list_led) >= 3
  /\ list_led[1].value = 0
  /\ list_led[2].value = 1
  /\ list_led[3].value = 2
  /\ Truthy(is_active_timestamps[2][2])

\* The number of entries of the list of the indicator for interval j.
EntriesOf(j) == IF Split(j) THEN 2 ELSE 1

\* C40: for a merged list of two points and more, the durations of the
\* entries of the indicator sum to the last merged timestamp minus the
\* first, the entries cover the merged intervals in order, and every active
\* interval is emitted as exactly one entry of value 2 with the length of
\* the interval.
C40_EntriesCoverIntervals ==
  (built /\ Len(is_active_timestamps) >= 2) =>
    /\ SumLed(Len(list_led))
         = LastOf(is_active_timestamps)[1] - is_active_timestamps[1][1]
    /\ Len(list_led)
         = EntryOf(Len(is_active_timestamps) - 1)
             + EntriesOf(Len(is_active_timestamps) - 1) - 1
    /\ \A j \in Intervals :
         /\ SumLed(EntryOf(j) + EntriesOf(j) - 1) - SumLed(EntryOf(j) - 1)
              = Length(j)
         /\ ~Resting(j) =>
              /\ EntriesOf(j) = 1
              /\ list_led[EntryOf(j)] = [delay |-> Length(j), value |-> 2]

\* An active interval followed by a long rest, which is split.
C40_Witness ==
  /\ built
  /\ Len(is_active_timestamps) = 3
  /\ ~Resting(1)
  /\ Split(2)
  /\ Len(list_led) = 3
  /\ list_led[1].value = 2

====
